---------------------------- MODULE Spec2Model ----------------------------
(***************************************************************************)
(* Model of the UCP shopping agent (samuelvinay91/ucp-shopping-agent).     *)
(*                                                                         *)
(* Specifications                                                          *)
(*   Spec          one shopping session as run by the API: the task        *)
(*                 create_shopping_session._run_graph driving the          *)
(*                 LangGraph workflow, with the confirm and cancel         *)
(*                 endpoints as the environment.                           *)
(*   GraphSpec     the compiled workflow graph alone, driven by a caller   *)
(*                 that invokes it and re-invokes it on its own result     *)
(*                 with user_confirmed set.                                *)
(*   ConfirmedSpec the API session from the point where _run_graph has     *)
(*                 received the confirmation and re-invokes the graph.     *)
(*   RequestSpec   UCPClient._request, the retry loop.                     *)
(*   DiscoverySpec DiscoveryAgent.discover_merchants_with_failures.        *)
(*   SearchSpec    SearchAgent.search_all_merchants.                       *)
(*   SearchOrderSpec  the same for two queries, with the order in which    *)
(*                 the concurrent calls end recorded.                      *)
(*   CheckoutSpec  CheckoutAgent.execute_checkouts.                        *)
(*   CheckoutNodeSpec  the checkout node of a confirmed run calling        *)
(*                 execute_checkouts, followed by the complete node.       *)
(*   StreamSpec    ShoppingEventStream: emit, subscribe, close.            *)
(*   CancelSpec    the cancel endpoint against a fan-out in flight.        *)
(*   OptimizerSpec SplitOrderOptimizer.optimize on a comparison matrix.    *)
(*   ComparisonSpec ComparisonAgent.build_comparison on search results.    *)
(*   MerchantSpec  a mock merchant's checkout endpoints.                   *)
(***************************************************************************)
EXTENDS Integers, Sequences, FiniteSets, TLC

VARIABLES
    \* ---- workflow (api.py, orchestrator/graph.py) ----
    hcr,                 \* settings.human_confirmation_required
    session,             \* the persisted ShoppingSession: state, error, orders
    tpc,                 \* position of the task _run_graph
    node,                \* the graph node about to run, or "END"
    gs,                  \* the ShoppingGraphState threaded through the nodes
    trace,               \* nodes executed in the current graph run
    history,             \* the events emitted on the session's event stream
    confirmation_event,  \* the session's asyncio.Event
    response,            \* status of the last confirm / cancel request
    \* ---- UCPClient._request ----
    req_max_retries, req_attempts, req_status, req_log,
    \* ---- DiscoveryAgent ----
    disc_urls, disc_results, disc_out,
    \* ---- SearchAgent ----
    srch_queries, srch_results, srch_out,
    srch_done,           \* the tasks that ended, in the order they ended (when recorded)
    \* ---- CheckoutAgent ----
    co_plan, co_registry, co_task, co_calls, co_out,
    \* ---- ShoppingEventStream (streaming.py), one session ----
    st_history,          \* _history[session]: the events emitted so far
    st_registry,         \* _queues[session]: the subscribers' queues, in order
    st_queue,            \* the content of each subscriber's queue
    st_sub,              \* each subscriber's position in subscribe()
    st_emit,             \* how the last call of emit ended
    st_closed,           \* the subscribers registered when close() was called
    \* ---- a fan-out of the workflow task under cancellation ----
    cn_kind,             \* which fan-out is in flight
    cn_task,             \* the workflow task _run_graph, awaiting the gather
    cn_child,            \* the per-merchant tasks of the gather
    cn_session,          \* the persisted state and error of the session
    cn_cancelled,        \* cancel_shopping_session was called
    \* ---- SplitOrderOptimizer (agents/optimizer.py) ----
    op_matrix,           \* the ComparisonMatrix given to optimize
    op_prefs,            \* the ShoppingPreferences given to optimize
    op_plan,             \* the SplitOrderPlan it returned
    op_pc,               \* "idle", "input" or "done"
    \* ---- ComparisonAgent (agents/comparison_agent.py) ----
    cmp_search_results,  \* merchant_id -> products, in insertion order
    cmp_item_names,      \* the item names of the shopping plan
    cmp_matrix,          \* the ComparisonMatrix build_comparison returned
    cmp_pc,              \* "idle", "input" or "done"
    \* ---- a mock merchant (mock_merchants/merchant_app.py) ----
    mm_sessions,         \* _checkout_sessions: session id -> session
    mm_orders,           \* _orders: order id -> order
    mm_call              \* the last request and its response

wfVars   == <<hcr, session, tpc, node, gs, trace, history, confirmation_event, response>>
reqVars  == <<req_max_retries, req_attempts, req_status, req_log>>
discVars == <<disc_urls, disc_results, disc_out>>
srchVars == <<srch_queries, srch_results, srch_out, srch_done>>
coVars   == <<co_plan, co_registry, co_task, co_calls, co_out>>
stVars   == <<st_history, st_registry, st_queue, st_sub, st_emit, st_closed>>
cnVars   == <<cn_kind, cn_task, cn_child, cn_session, cn_cancelled>>
opVars   == <<op_matrix, op_prefs, op_plan, op_pc>>
cmpVars  == <<cmp_search_results, cmp_item_names, cmp_matrix, cmp_pc>>
mmVars   == <<mm_sessions, mm_orders, mm_call>>
vars     == <<wfVars, reqVars, discVars, srchVars, coVars, stVars, cnVars, opVars,
             cmpVars, mmVars>>

-----------------------------------------------------------------------------
(* Bounds *)

\* Most merchants the discovery step of a workflow run may return.
MaxFound == 2

\* Largest max_retries a client is built with (the default is 2).
MaxRetries == 2

\* settings.max_merchants (10 by default): the number of candidate URLs
\* that are probed.
MaxMerchants == 2

\* Most capabilities a manifest lists.
MaxCaps == 2

\* Most queries (items of the shopping plan) of a search.
MaxQueries == 2

\* Most items of a split-order plan handed to the checkout.
MaxPlanItems == 3

\* Most events emitted for the session of the event stream.
MaxEvents == 3

\* The capacity of a subscriber's queue (max_queue_size).
QueueSize == 2

\* Most checkout sessions created at the mock merchant.
MaxSessions == 1
MaxEntries == 2
MaxResults == 2
MaxOffers == 3

-----------------------------------------------------------------------------
(* Sequence helpers *)

Range(s) == {s[i] : i \in 1..Len(s)}

IsPrefix(s, t) == Len(s) <= Len(t) /\ \A i \in 1..Len(s) : s[i] = t[i]

-----------------------------------------------------------------------------
(* ShoppingSessionState, models.py *)

PLANNING              == "planning"
DISCOVERING           == "discovering"
SEARCHING             == "searching"
COMPARING             == "comparing"
OPTIMIZING            == "optimizing"
AWAITING_CONFIRMATION == "awaiting_confirmation"
CHECKING_OUT          == "checking_out"
COMPLETED             == "completed"
FAILED                == "failed"

NoError == "none"

(* Event type constants, streaming.py *)
EVENT_PLANNING              == "planning"
EVENT_MERCHANTS_DISCOVERED  == "merchants_discovered"
EVENT_SEARCHING             == "searching"
EVENT_PRODUCTS_FOUND        == "products_found"
EVENT_COMPARING             == "comparing"
EVENT_COMPARISON_READY      == "comparison_ready"
EVENT_OPTIMIZING            == "optimizing"
EVENT_OPTIMIZATION_READY    == "optimization_ready"
EVENT_AWAITING_CONFIRMATION == "awaiting_confirmation"
EVENT_CHECKING_OUT          == "checking_out"
EVENT_COMPLETED             == "completed"
EVENT_ERROR                 == "error"

-----------------------------------------------------------------------------
(* The workflow graph, orchestrator/graph.py.                              *)
(*                                                                         *)
(* A node is a function of the workflow state s and of the outcome o of    *)
(* the component it calls (the planner, an agent); it yields the new       *)
(* workflow state and the events it emitted.  The components' results are  *)
(* abstracted to what the nodes and the routing read:                      *)
(*   shopping_plan      "none" (None), "empty" (no items), "items"         *)
(*   discovered_merchants  the number of merchants discovered              *)
(*   comparison_matrix  "none" (None), "matrix"                            *)
(*   optimization_plan  "none" (None), "empty" (no items), "items"         *)
(*   completed_orders   the number of orders                               *)

\* The initial state _run_graph builds.
InitialGraphState ==
    [ current_state        |-> PLANNING,
      shopping_plan        |-> "none",
      discovered_merchants |-> 0,
      search_results       |-> "empty",
      comparison_matrix    |-> "none",
      optimization_plan    |-> "none",
      user_confirmed       |-> FALSE,
      completed_orders     |-> 0,
      error                |-> NoError ]

Result(s, ev) == [s |-> s, ev |-> ev]

plan_node(s, o) ==
    IF o.raise
    THEN Result([s EXCEPT !.error = "Planning failed"],
                <<EVENT_PLANNING, EVENT_ERROR>>)
    ELSE Result([s EXCEPT !.shopping_plan = o.plan,
                          !.current_state = DISCOVERING,
                          !.error = NoError],
                <<EVENT_PLANNING, EVENT_PLANNING>>)

discover_node(s, o) ==
    IF o.raise
    THEN Result([s EXCEPT !.discovered_merchants = 0,
                          !.error = "Discovery failed"],
                <<EVENT_SEARCHING, EVENT_ERROR>>)
    ELSE Result([s EXCEPT !.discovered_merchants = o.n,
                          !.current_state = IF o.n > 0 THEN SEARCHING ELSE FAILED,
                          !.error = IF o.n > 0 THEN NoError
                                    ELSE "No merchants discovered."],
                <<EVENT_SEARCHING, EVENT_MERCHANTS_DISCOVERED>>)

search_node(s, o) ==
    IF s.shopping_plan # "items"
    THEN Result([s EXCEPT !.error = "No shopping plan available."], <<>>)
    ELSE IF o.raise
    THEN Result([s EXCEPT !.error = "Search failed"],
                <<EVENT_SEARCHING, EVENT_ERROR>>)
    ELSE Result([s EXCEPT !.search_results = "results",
                          !.current_state = COMPARING,
                          !.error = NoError],
                <<EVENT_SEARCHING, EVENT_PRODUCTS_FOUND>>)

compare_node(s, o) ==
    IF o.raise
    THEN Result([s EXCEPT !.error = "Comparison failed"],
                <<EVENT_COMPARING, EVENT_ERROR>>)
    ELSE Result([s EXCEPT !.comparison_matrix = "matrix",
                          !.current_state = OPTIMIZING,
                          !.error = NoError],
                <<EVENT_COMPARING, EVENT_COMPARISON_READY>>)

optimize_node(s, o) ==
    IF s.comparison_matrix = "none"
    THEN Result([s EXCEPT !.error = "No comparison matrix available."], <<>>)
    ELSE IF o.raise
    THEN Result([s EXCEPT !.error = "Optimization failed"],
                <<EVENT_OPTIMIZING, EVENT_ERROR>>)
    ELSE Result([s EXCEPT !.optimization_plan = o.plan,
                          !.current_state = AWAITING_CONFIRMATION,
                          !.error = NoError],
                <<EVENT_OPTIMIZING, EVENT_OPTIMIZATION_READY>>)

present_node(s, o) ==
    Result([s EXCEPT !.current_state = AWAITING_CONFIRMATION],
           <<EVENT_AWAITING_CONFIRMATION>>)

wait_node(s, o) ==
    Result(s, IF s.user_confirmed THEN <<>> ELSE <<EVENT_AWAITING_CONFIRMATION>>)

\* Mutant of checkout_node: a checkout that obtained no order is a failure.
checkout_node_fails_without_order(s, o) ==
    IF s.optimization_plan = "none"
    THEN Result([s EXCEPT !.error = "No optimization plan for checkout."], <<>>)
    ELSE IF o.raise \/ o.n = 0
    THEN Result([s EXCEPT !.error = "Checkout failed"],
                <<EVENT_CHECKING_OUT, EVENT_ERROR>>)
    ELSE Result([s EXCEPT !.completed_orders = o.n,
                          !.current_state = COMPLETED,
                          !.error = NoError],
                <<EVENT_CHECKING_OUT>>)

checkout_node(s, o) ==
    IF s.optimization_plan = "none"
    THEN Result([s EXCEPT !.error = "No optimization plan for checkout."], <<>>)
    ELSE IF o.raise
    THEN Result([s EXCEPT !.error = "Checkout failed"],
                <<EVENT_CHECKING_OUT, EVENT_ERROR>>)
    ELSE Result([s EXCEPT !.completed_orders = o.n,
                          !.current_state = COMPLETED,
                          !.error = NoError],
                <<EVENT_CHECKING_OUT>>)

complete_node(s, o) ==
    Result([s EXCEPT !.current_state = COMPLETED], <<EVENT_COMPLETED>>)

fail_node(s, o) ==
    Result([s EXCEPT !.current_state = FAILED], <<>>)

(* Conditional routing functions *)
after_discover(s) == IF s.discovered_merchants > 0 THEN "search" ELSE "fail"

after_compare(s) == "optimize"

\* Mutant of after_wait: the gate routes to checkout whatever the flag.
after_wait_unconditional(s) == "checkout"

after_wait(s) == IF s.user_confirmed THEN "checkout" ELSE "fail"

\* The edges build_shopping_graph adds: the node that follows n, given the
\* state n returned.
NextNode(n, s) ==
    CASE n = "plan"                  -> "discover"
      [] n = "discover"              -> after_discover(s)
      [] n = "search"                -> "compare"
      [] n = "compare"               -> after_compare(s)
      [] n = "optimize"              -> "present"
      [] n = "present"               -> "wait_for_confirmation"
      [] n = "wait_for_confirmation" -> after_wait(s)
      [] n = "checkout"              -> "complete"
      [] n = "complete"              -> "END"
      [] n = "fail"                  -> "END"

\* The node functions build_shopping_graph registers under each name.
RunNode(n, s, o) ==
    CASE n = "plan"                  -> plan_node(s, o)
      [] n = "discover"              -> discover_node(s, o)
      [] n = "search"                -> search_node(s, o)
      [] n = "compare"               -> compare_node(s, o)
      [] n = "optimize"              -> optimize_node(s, o)
      [] n = "present"               -> present_node(s, o)
      [] n = "wait_for_confirmation" -> wait_node(s, o)
      [] n = "checkout"              -> checkout_node(s, o)
      [] n = "complete"              -> complete_node(s, o)
      [] n = "fail"                  -> fail_node(s, o)

\* What the component a node calls may do: raise, or return a result (a
\* count n for discovery and checkout, a plan for the planner and the
\* optimizer).
Raised == [raise |-> TRUE, n |-> 0, plan |-> "none"]

Returned(n, plan) == [raise |-> FALSE, n |-> n, plan |-> plan]

\* The optimizer returns a plan with items only for a shopping plan with
\* items; the checkout agent returns at most one order per merchant.
Outcomes(n, s) ==
    CASE n = "plan"     -> {Raised, Returned(0, "empty"), Returned(0, "items")}
      [] n = "discover" -> {Raised} \cup {Returned(k, "none") : k \in 0..MaxFound}
      [] n = "search"   -> IF s.shopping_plan = "items"
                           THEN {Raised, Returned(0, "none")}
                           ELSE {Returned(0, "none")}
      [] n = "compare"  -> {Raised, Returned(0, "none")}
      [] n = "optimize" -> IF s.comparison_matrix = "none" THEN {Returned(0, "empty")}
                           ELSE IF s.shopping_plan = "items"
                                THEN {Raised, Returned(0, "empty"), Returned(0, "items")}
                                ELSE {Raised, Returned(0, "empty")}
      [] n = "checkout" -> IF s.optimization_plan = "none" THEN {Returned(0, "none")}
                           ELSE IF s.optimization_plan = "items"
                                THEN {Raised} \cup
                                     {Returned(k, "none") : k \in 0..s.discovered_merchants}
                                ELSE {Raised, Returned(0, "none")}
      [] OTHER          -> {Returned(0, "none")}

\* The nodes that write the error field: None when their work succeeded,
\* the error they recorded otherwise.
ErrorNodes == {"plan", "discover", "search", "compare", "optimize", "checkout"}

\* data["order_count"] of the completed event: len(orders), the orders being
\* the completed_orders of the state complete_node is given.
CompletedOrderCount(s) == s.completed_orders

\* The event a node given state s emits with this type; of the events' data
\* only the order_count of a completed event is kept.
WorkflowEvent(type, s) ==
    [type |-> type,
     order_count |-> IF type = EVENT_COMPLETED THEN <<CompletedOrderCount(s)>>
                     ELSE <<>>]

WorkflowEvents(types, s) == [i \in 1..Len(types) |-> WorkflowEvent(types[i], s)]

\* One step of the compiled graph: run the current node, append what it
\* emitted to the session's event history, follow its outgoing edge.
GraphStep ==
    /\ tpc \in {"invoke1", "invoke2", "graph"}
    /\ node # "END"
    /\ \E o \in Outcomes(node, gs) :
         LET r == RunNode(node, gs, o) IN
           /\ gs' = r.s
           /\ history' = history \o WorkflowEvents(r.ev, gs)
           /\ trace' = Append(trace, [node  |-> node,
                                      error |-> IF node \in ErrorNodes
                                                THEN r.s.error ELSE NoError])
           /\ node' = NextNode(node, r.s)
    /\ UNCHANGED <<hcr, session, tpc, confirmation_event, response>>
    /\ UNCHANGED <<reqVars, discVars, srchVars, coVars, stVars, cnVars, opVars, cmpVars, mmVars>>

-----------------------------------------------------------------------------
(* One session as the API runs it, api.py *)

\* The task _run_graph past its graph invocations.  It persists the result
\* of the first invocation on the session; when that result is awaiting
\* confirmation it waits for the confirmation event (if the settings require
\* a confirmation), re-invokes the graph on the result with user_confirmed
\* set, and persists the final result.
Reinvoke ==
    /\ gs' = [gs EXCEPT !.user_confirmed = TRUE]
    /\ node' = "plan"
    /\ trace' = <<>>
    /\ tpc' = "invoke2"

run_graph ==
    /\ CASE tpc = "invoke1" /\ node = "END" ->
               /\ session' = [session EXCEPT !.state = gs.current_state,
                                             !.error = gs.error]
               /\ IF gs.current_state = AWAITING_CONFIRMATION
                  THEN IF hcr
                       THEN tpc' = "wait" /\ UNCHANGED <<gs, node, trace>>
                       ELSE Reinvoke
                  ELSE tpc' = "done" /\ UNCHANGED <<gs, node, trace>>
           [] tpc = "wait" /\ confirmation_event ->
               /\ Reinvoke
               /\ UNCHANGED session
           [] tpc = "invoke2" /\ node = "END" ->
               /\ session' = [session EXCEPT !.state = gs.current_state,
                                             !.orders = gs.completed_orders,
                                             !.error = gs.error]
               /\ tpc' = "done"
               /\ UNCHANGED <<gs, node, trace>>
           [] OTHER -> FALSE
    /\ UNCHANGED <<hcr, history, confirmation_event, response>>
    /\ UNCHANGED <<reqVars, discVars, srchVars, coVars, stVars, cnVars, opVars, cmpVars, mmVars>>

\* Mutant of ConfirmAccepted: a confirm request is accepted in any state.
ConfirmAccepted_in_any_state(state) == TRUE

\* confirm_shopping_session accepts a session in this persisted state.
ConfirmAccepted(state) == state = AWAITING_CONFIRMATION

\* POST /api/v1/shop/{session_id}/confirm
confirm_shopping_session ==
    /\ IF ~ConfirmAccepted(session.state)
       THEN response' = "confirm_400" /\ UNCHANGED confirmation_event
       ELSE response' = "confirm_200" /\ confirmation_event' = TRUE
    /\ UNCHANGED <<hcr, session, tpc, node, gs, trace, history>>
    /\ UNCHANGED <<reqVars, discVars, srchVars, coVars, stVars, cnVars, opVars, cmpVars, mmVars>>

\* POST /api/v1/shop/{session_id}/cancel: cancels the task unless it is
\* done, and marks the session failed.
cancel_shopping_session ==
    /\ tpc' = IF tpc \in {"done", "cancelled"} THEN tpc ELSE "cancelled"
    /\ session' = [session EXCEPT !.state = FAILED,
                                  !.error = "Cancelled by user."]
    /\ response' = "cancel_200"
    /\ UNCHANGED <<hcr, node, gs, trace, history, confirmation_event>>
    /\ UNCHANGED <<reqVars, discVars, srchVars, coVars, stVars, cnVars, opVars, cmpVars, mmVars>>

\* The checkout node of a run whose call of execute_checkouts has returned:
\* the node's outcome is the list of orders the agent returned.
checkout_node_returns ==
    /\ tpc = "graph"
    /\ node = "checkout"
    /\ co_out.status = "returned"
    /\ LET r == RunNode(node, gs, Returned(Len(co_out.orders), "none")) IN
         /\ gs' = r.s
         /\ history' = history \o WorkflowEvents(r.ev, gs)
         /\ trace' = Append(trace, [node |-> node, error |-> r.s.error])
         /\ node' = NextNode(node, r.s)
    /\ UNCHANGED <<hcr, session, tpc, confirmation_event, response>>
    /\ UNCHANGED <<reqVars, discVars, srchVars, coVars, stVars, cnVars, opVars, cmpVars, mmVars>>

\* The complete node, which follows the checkout node.
complete_node_runs ==
    /\ node = "complete"
    /\ GraphStep

\* A caller of the compiled graph that re-invokes it on its result with
\* user_confirmed set (what _run_graph does past the confirmation gate).
GraphReinvoke ==
    /\ tpc = "graph"
    /\ node = "END"
    /\ ~gs.user_confirmed
    /\ gs' = [gs EXCEPT !.user_confirmed = TRUE]
    /\ node' = "plan"
    /\ trace' = <<>>
    /\ UNCHANGED <<hcr, session, tpc, history, confirmation_event, response>>
    /\ UNCHANGED <<reqVars, discVars, srchVars, coVars, stVars, cnVars, opVars, cmpVars, mmVars>>

-----------------------------------------------------------------------------
(* UCPClient._request, protocols/ucp_client.py *)

\* What one HTTP attempt may end in: a response with a status code (a 2xx
\* one with a JSON body), a 2xx response whose body is not JSON, a timeout
\* (httpx.TimeoutException), another transport error (httpx.RequestError).
StatusCodes == {200, 201, 400, 404, 499, 500, 503}

AttemptOutcomes ==
    {[kind |-> "response", code |-> c] : c \in StatusCodes}
    \cup {[kind |-> k, code |-> 0] : k \in {"undecodable", "timeout", "request_error"}}

\* response.raise_for_status() passes.
IsSuccess(out) == out.kind = "response" /\ out.code \in 200..299

\* Mutant of IsClientError: the lower limit of the 4xx test is exclusive.
IsClientError_exclusive(code) == 400 < code /\ code < 500

\* The test that makes an HTTPStatusError terminal.
IsClientError(code) == 400 <= code /\ code < 500

\* Mutant of AttemptLimit: the loop runs max_retries times.
AttemptLimit_off_by_one(max_retries) == max_retries

\* The number of iterations of the retry loop.
AttemptLimit(max_retries) == max_retries + 1

\* How the call stands after its attempt number k ended in out:
\* it returned, it raised, or it goes on to the next attempt.
AfterAttempt(out, k, max_retries) ==
    IF IsSuccess(out) THEN "returned"
    ELSE IF out.kind = "undecodable" THEN "raised_other"
    ELSE IF out.kind = "response" /\ IsClientError(out.code) THEN "raised_ucp"
    ELSE IF k >= AttemptLimit(max_retries) THEN "raised_ucp"
    ELSE "running"

\* One iteration of the loop; the raise after the loop belongs to the last.
request_attempt ==
    /\ req_status = "running"
    /\ req_attempts < AttemptLimit(req_max_retries)
    /\ \E out \in AttemptOutcomes :
         /\ req_attempts' = req_attempts + 1
         /\ req_log' = Append(req_log, out)
         /\ req_status' = AfterAttempt(out, req_attempts + 1, req_max_retries)
    /\ UNCHANGED req_max_retries
    /\ UNCHANGED <<wfVars, discVars, srchVars, coVars, stVars, cnVars, opVars, cmpVars, mmVars>>

-----------------------------------------------------------------------------
(* DiscoveryAgent, agents/discovery_agent.py *)

\* Candidate merchant URLs, and the last path segment of each.
Urls == {"http://h/merchants/techzone", "http://h/merchants/homegoods",
         "http://h/merchants/megamart"}

LastSegment(url) ==
    CASE url = "http://h/merchants/techzone"  -> "techzone"
      [] url = "http://h/merchants/homegoods" -> "homegoods"
      [] url = "http://h/merchants/megamart"  -> "megamart"

\* The lists of distinct URLs.
UrlLists ==
    {s \in UNION {[1..n -> Urls] : n \in 1..Cardinality(Urls)} :
        \A i, j \in 1..Len(s) : i # j => s[i] # s[j]}

Min(a, b) == IF a <= b THEN a ELSE b

\* target_urls[: max_merchants]
TargetUrls(urls) == SubSeq(urls, 1, Min(Len(urls), MaxMerchants))

PendingResult == [st |-> "pending", url |-> "", id |-> "", caps |-> 0]

\* _discover_one: the manifest fetched from url gave merchant_id id (empty
\* when the manifest has none) and caps capabilities.
DiscoverOneResult(url, id, caps) ==
    [st |-> "merchant", url |-> url,
     id |-> IF id = "" THEN LastSegment(url) ELSE id, caps |-> caps]

\* _discover_one raised (a UCPClientError, or another exception wrapped
\* into one).
DiscoverOneError(url) == [st |-> "error", url |-> url, id |-> "", caps |-> 0]

\* Mutant of InsertByCaps: a merchant goes before those of equal count.
RECURSIVE InsertByCaps_before_equals(_, _)
InsertByCaps_before_equals(sorted, m) ==
    IF sorted = <<>> THEN <<m>>
    ELSE IF Head(sorted).caps > m.caps
         THEN <<Head(sorted)>> \o InsertByCaps_before_equals(Tail(sorted), m)
         ELSE <<m>> \o sorted

\* list.sort(key=len(capabilities), reverse=True): stable, descending.
RECURSIVE InsertByCaps(_, _)
InsertByCaps(sorted, m) ==
    IF sorted = <<>> THEN <<m>>
    ELSE IF Head(sorted).caps >= m.caps
         THEN <<Head(sorted)>> \o InsertByCaps(Tail(sorted), m)
         ELSE <<m>> \o sorted

RECURSIVE SortByCaps(_)
SortByCaps(ms) ==
    IF ms = <<>> THEN <<>>
    ELSE InsertByCaps(SortByCaps(SubSeq(ms, 1, Len(ms) - 1)), ms[Len(ms)])

RECURSIVE SelectSt(_, _)
SelectSt(results, st) ==
    IF results = <<>> THEN <<>>
    ELSE (IF Head(results).st = st THEN <<Head(results)>> ELSE <<>>)
         \o SelectSt(Tail(results), st)

\* Mutant of GatherDiscovery: gather without return_exceptions.
GatherDiscovery_propagates(results) ==
    IF \E i \in 1..Len(results) : results[i].st = "error"
    THEN [status |-> "raised", merchants |-> <<>>, failed |-> <<>>]
    ELSE [status |-> "returned", merchants |-> SortByCaps(results), failed |-> <<>>]

\* asyncio.gather(*tasks, return_exceptions=True) and the loop over its
\* results: the merchants, sorted, and the URLs that failed.
GatherDiscovery(results) ==
    LET errs == SelectSt(results, "error") IN
    [status    |-> "returned",
     merchants |-> SortByCaps(SelectSt(results, "merchant")),
     failed    |-> [i \in 1..Len(errs) |-> errs[i].url]]

\* One _discover_one task ends; the tasks run concurrently and end in any
\* order.
discover_one ==
    /\ disc_out.status = "pending"
    /\ \E i \in 1..Len(disc_results) :
         /\ disc_results[i].st = "pending"
         /\ \E r \in {DiscoverOneError(TargetUrls(disc_urls)[i])}
                    \cup {DiscoverOneResult(TargetUrls(disc_urls)[i], id, caps) :
                             id \in {"", "shop"}, caps \in 0..MaxCaps} :
              disc_results' = [disc_results EXCEPT ![i] = r]
    /\ UNCHANGED <<disc_urls, disc_out>>
    /\ UNCHANGED <<wfVars, reqVars, srchVars, coVars, stVars, cnVars, opVars, cmpVars, mmVars>>

\* Every task has ended: discover_merchants_with_failures returns.
discover_merchants_with_failures ==
    /\ disc_out.status = "pending"
    /\ \A i \in 1..Len(disc_results) : disc_results[i].st # "pending"
    /\ disc_out' = GatherDiscovery(disc_results)
    /\ UNCHANGED <<disc_urls, disc_results>>
    /\ UNCHANGED <<wfVars, reqVars, srchVars, coVars, stVars, cnVars, opVars, cmpVars, mmVars>>

-----------------------------------------------------------------------------
(* SearchAgent, agents/search_agent.py *)

\* The discovered merchants that are searched.
SearchMerchants ==
    << [id |-> "m1", name |-> "TechZone"], [id |-> "m2", name |-> "MegaMart"] >>

QueryLists == UNION {[1..n -> {"keyboard", "mouse"}] : n \in 1..MaxQueries}

Product(merchant_id, product_id, name) ==
    [merchant_id |-> merchant_id, product_id |-> product_id, name |-> name]

\* What search_products may parse from merchant m's response: products with
\* the merchant id given or left empty, some product listed twice under
\* different names, and two products whose ids contain the separator of
\* the deduplication key.
Responses(m) ==
    { <<>>,
      <<Product(m.id, "x:p1", "a"), Product(m.id \o ":x", "p1", "b")>>,
      <<Product("", "p1", "c"), Product(m.id, "p2", "d")>>,
      <<Product(m.id, "p2", "e"), Product("", "p1", "f")>>,
      <<Product(m.id, "p1", "g"), Product("", "p1", "h")>> }

\* The loop that fills in the merchant id of the products that lack one.
BackFill(products, m) ==
    [i \in 1..Len(products) |->
        IF products[i].merchant_id = ""
        THEN [products[i] EXCEPT !.merchant_id = m.id]
        ELSE products[i]]

\* f"{product.merchant_id}:{product.product_id}"
ProductKey(product) == product.merchant_id \o ":" \o product.product_id

RECURSIVE DedupFrom(_, _)
DedupFrom(products, seen) ==
    IF products = <<>> THEN <<>>
    ELSE IF ProductKey(Head(products)) \in seen
         THEN DedupFrom(Tail(products), seen)
         ELSE <<Head(products)>>
              \o DedupFrom(Tail(products), seen \cup {ProductKey(Head(products))})

\* Mutant of Deduplicate: only the first repeated product is removed.
Deduplicate_first_repeat_only(products) ==
    LET repeats == {j \in 1..Len(products) :
                      \E i \in 1..(j - 1) :
                          ProductKey(products[i]) = ProductKey(products[j])}
        first == CHOOSE j \in repeats : \A k \in repeats : j <= k
    IN  IF repeats = {} THEN products
        ELSE SubSeq(products, 1, first - 1)
             \o SubSeq(products, first + 1, Len(products))

\* _deduplicate: the first occurrence of each key is kept.
Deduplicate(products) == DedupFrom(products, {})

PendingSearch ==
    [st |-> "pending", call |-> "pending", merchant_id |-> "", products |-> <<>>]

\* _search_one_merchant(m, query) when search_products did `call`: returned
\* products ("ok"), raised UCPClientError ("ucp_error"), raised anything
\* else ("exception").  The task returns (m.id, products), (m.id, []) or
\* ends with the exception.
SearchOneResult(m, call, products) ==
    CASE call = "ok" ->
           [st |-> "returned", call |-> call, merchant_id |-> m.id,
            products |-> BackFill(products, m)]
      [] call = "ucp_error" ->
           [st |-> "returned", call |-> call, merchant_id |-> m.id,
            products |-> <<>>]
      [] call = "exception" ->
           [st |-> "exception", call |-> call, merchant_id |-> "",
            products |-> <<>>]

\* The aggregation loop: the tuples of the tasks that returned, in task
\* order, grouped under their merchant id; a task that ended with an
\* exception is skipped.
RECURSIVE AggregateSearch(_, _)
AggregateSearch(results, acc) ==
    IF results = <<>> THEN acc
    ELSE LET r == Head(results) IN
         IF r.st = "exception" THEN AggregateSearch(Tail(results), acc)
         ELSE AggregateSearch(
                Tail(results),
                [k \in DOMAIN acc \cup {r.merchant_id} |->
                    IF k = r.merchant_id
                    THEN (IF k \in DOMAIN acc THEN acc[k] ELSE <<>>) \o r.products
                    ELSE acc[k]])

\* asyncio.gather(*tasks, return_exceptions=True), the aggregation and the
\* deduplication within each merchant.
GatherSearch(results) ==
    LET merged == AggregateSearch(results, <<>>) IN
    [status  |-> "returned",
     results |-> [k \in DOMAIN merged |-> Deduplicate(merged[k])]]

\* Mutant of GatherResults: the results come in the order the tasks ended.
GatherResults_as_completed(results, done) ==
    [i \in 1..Len(done) |-> results[done[i]]]

\* asyncio.gather(*tasks): the results in the order of the tasks, whatever
\* the order in which they ended.
GatherResults(results, done) == results

\* The task of pair (merchant number mi, query number qi), tasks being
\* created merchant by merchant, query by query.
TaskOf(mi, qi, nq) == (mi - 1) * nq + qi

\* One _search_one_merchant task ends, in any order.
search_one_merchant ==
    /\ srch_out.status = "pending"
    /\ \E mi \in 1..Len(SearchMerchants), qi \in 1..Len(srch_queries) :
         LET k == TaskOf(mi, qi, Len(srch_queries))
             m == SearchMerchants[mi]
         IN /\ srch_results[k].st = "pending"
            /\ \E r \in {SearchOneResult(m, "ok", ps) : ps \in Responses(m)}
                       \cup {SearchOneResult(m, "ucp_error", <<>>),
                             SearchOneResult(m, "exception", <<>>)} :
                 srch_results' = [srch_results EXCEPT ![k] = r]
    /\ UNCHANGED <<srch_queries, srch_out, srch_done>>
    /\ UNCHANGED <<wfVars, reqVars, discVars, coVars, stVars, cnVars, opVars, cmpVars, mmVars>>

\* One _search_one_merchant task ends, in any order; the order is recorded.
search_task_ends ==
    /\ srch_out.status = "pending"
    /\ \E mi \in 1..Len(SearchMerchants), qi \in 1..Len(srch_queries) :
         LET k == TaskOf(mi, qi, Len(srch_queries))
             m == SearchMerchants[mi]
         IN /\ srch_results[k].st = "pending"
            /\ \E r \in {SearchOneResult(m, "ok", ps) : ps \in Responses(m)}
                       \cup {SearchOneResult(m, "ucp_error", <<>>),
                             SearchOneResult(m, "exception", <<>>)} :
                 srch_results' = [srch_results EXCEPT ![k] = r]
            /\ srch_done' = Append(srch_done, k)
    /\ UNCHANGED <<srch_queries, srch_out>>
    /\ UNCHANGED <<wfVars, reqVars, discVars, coVars, stVars, cnVars, opVars, cmpVars, mmVars>>

\* Every task has ended: search_all_merchants returns.
search_all_merchants ==
    /\ srch_out.status = "pending"
    /\ \A k \in 1..Len(srch_results) : srch_results[k].st # "pending"
    /\ srch_out' = GatherSearch(GatherResults(srch_results, srch_done))
    /\ UNCHANGED <<srch_queries, srch_results, srch_done>>
    /\ UNCHANGED <<wfVars, reqVars, discVars, coVars, stVars, cnVars, opVars, cmpVars, mmVars>>

-----------------------------------------------------------------------------
(* CheckoutAgent, agents/checkout_agent.py *)

CheckoutMerchants == {"m1", "m2", "m3"}

\* The merchant ids of the items of a plan.
PlanLists == UNION {[1..n -> CheckoutMerchants] : n \in 1..MaxPlanItems}

\* The merchant registries: every merchant, or all but m3.
Registries == {CheckoutMerchants, CheckoutMerchants \ {"m3"}}

\* merchant_items: the merchants of the plan, in order of first occurrence.
RECURSIVE GroupOrder(_, _)
GroupOrder(plan, seen) ==
    IF plan = <<>> THEN <<>>
    ELSE IF Head(plan) \in seen THEN GroupOrder(Tail(plan), seen)
         ELSE <<Head(plan)>> \o GroupOrder(Tail(plan), seen \cup {Head(plan)})

\* The merchants a task is created for: those of the plan found in the
\* registry.
TaskMerchants(plan, registry) ==
    LET g == GroupOrder(plan, {}) IN
    {g[i] : i \in {k \in 1..Len(g) : g[k] \in registry}}

CheckoutSteps == <<"create", "update", "complete">>

\* Mutant of AfterStep: a failed update is not noticed and the checkout
\* goes on to complete.
AfterStep_ignores_update(step, outcome) ==
    IF outcome # "ok" /\ step # "update" THEN "failed"
    ELSE CASE step = "create"   -> "update"
           [] step = "update"   -> "complete"
           [] step = "complete" -> "order"

\* Mutant of AfterStep: a successful create is followed by complete, the
\* update step being left out.
AfterStep_skips_update(step, outcome) ==
    IF outcome # "ok" THEN "failed"
    ELSE CASE step = "create"   -> "complete"
           [] step = "update"   -> "complete"
           [] step = "complete" -> "order"

\* _checkout_one_merchant: where the task stands after a step, a step being
\* the protocol call and the reading of its response; a step that raised
\* (UCPClientError or any other exception) ends the task with None, the last
\* step ends it with an OrderSummary.
AfterStep(step, outcome) ==
    IF outcome # "ok" THEN "failed"
    ELSE CASE step = "create"   -> "update"
           [] step = "update"   -> "complete"
           [] step = "complete" -> "order"

RECURSIVE OrdersOf(_, _)
OrdersOf(group, task) ==
    IF group = <<>> THEN <<>>
    ELSE (IF task[Head(group)] = "order" THEN <<Head(group)>> ELSE <<>>)
         \o OrdersOf(Tail(group), task)

\* asyncio.gather(*tasks, return_exceptions=True) and the loop collecting
\* the orders, in task order.
GatherCheckout(plan, task) ==
    [status |-> "returned", orders |-> OrdersOf(GroupOrder(plan, {}), task)]

\* One protocol step of one merchant's checkout; the merchants' tasks
\* interleave.
checkout_one_merchant ==
    /\ co_out.status = "pending"
    /\ \E m \in CheckoutMerchants, outcome \in {"ok", "ucp_error", "exception"} :
         /\ co_task[m] \in Range(CheckoutSteps)
         /\ co_calls' = [co_calls EXCEPT ![m] =
                            Append(@, [step |-> co_task[m], outcome |-> outcome])]
         /\ co_task' = [co_task EXCEPT ![m] = AfterStep(co_task[m], outcome)]
    /\ UNCHANGED <<co_plan, co_registry, co_out>>
    /\ UNCHANGED <<wfVars, reqVars, discVars, srchVars, stVars, cnVars, opVars, cmpVars, mmVars>>

\* Every task has ended: execute_checkouts returns.
execute_checkouts ==
    /\ co_out.status = "pending"
    /\ \A m \in CheckoutMerchants : co_task[m] \notin Range(CheckoutSteps)
    /\ co_out' = GatherCheckout(co_plan, co_task)
    /\ UNCHANGED <<co_plan, co_registry, co_task, co_calls>>
    /\ UNCHANGED <<wfVars, reqVars, discVars, srchVars, stVars, cnVars, opVars, cmpVars, mmVars>>

-----------------------------------------------------------------------------
(* ShoppingEventStream, streaming.py: one session, its subscribers *)

Subscribers == {"s1", "s2"}

\* The event types emit is called with: one that is not terminal, and the
\* two after which a live stream stops.
EventTypes == {EVENT_SEARCHING, EVENT_COMPLETED, EVENT_ERROR}

\* The k-th ShoppingEvent constructed for the session.
Event(k, type) == [id |-> k, type |-> type]

\* None, the sentinel close() enqueues.
Sentinel == [id |-> 0, type |-> "None"]

IsTerminal(event) == event.type \in {EVENT_COMPLETED, EVENT_ERROR}

IsFull(q) == Len(q) >= QueueSize

\* Mutant of FanOut: asyncio.QueueFull is not caught; the loop stops at the
\* first full queue and emit raises.
RECURSIVE FanOut_propagates_full(_, _, _)
FanOut_propagates_full(registry, queue, event) ==
    IF registry = <<>> THEN [queue |-> queue, status |-> "returned"]
    ELSE IF IsFull(queue[Head(registry)])
         THEN [queue |-> queue, status |-> "raised"]
         ELSE FanOut_propagates_full(
                Tail(registry),
                [queue EXCEPT ![Head(registry)] = Append(@, event)],
                event)

\* emit's loop over the session's queues: put_nowait on each in turn, a
\* QueueFull being caught and logged.
RECURSIVE FanOut(_, _, _)
FanOut(registry, queue, event) ==
    IF registry = <<>> THEN [queue |-> queue, status |-> "returned"]
    ELSE FanOut(Tail(registry),
                [queue EXCEPT ![Head(registry)] =
                    IF IsFull(@) THEN @ ELSE Append(@, event)],
                event)

NotSubscribed ==
    [pc |-> "idle", idx |-> 0, joined_at |-> 0,
     yielded |-> <<>>, last |-> Sentinel]

\* session_queues.remove(queue), if the queue is in the list.
Remove(registry, s) == SelectSeq(registry, LAMBDA x : x # s)

\* emit(session, type): the event is appended to the history, then put on
\* the queue of every registered subscriber.  emit awaits nothing, so it is
\* one step.
emit ==
    /\ Len(st_history) < MaxEvents
    /\ \E type \in EventTypes :
         LET event == Event(Len(st_history) + 1, type)
             r     == FanOut(st_registry, st_queue, event)
         IN /\ st_history' = Append(st_history, event)
            /\ st_queue' = r.queue
            /\ st_emit' = r.status
    /\ UNCHANGED <<st_registry, st_sub, st_closed>>
    /\ UNCHANGED <<wfVars, reqVars, discVars, srchVars, coVars, cnVars, opVars, cmpVars, mmVars>>

\* The first step of subscribe(): the queue is created and registered and
\* the replay loop starts on the session's history list itself (not a copy)
\* when the session has one; it runs to its first yield.  With no history
\* the generator goes on to wait on its (empty) queue.
subscribe ==
    /\ \E s \in Subscribers :
         /\ st_sub[s].pc = "idle"
         /\ st_registry' = Append(st_registry, s)
         /\ st_queue' = [st_queue EXCEPT ![s] = <<>>]
         /\ st_sub' = [st_sub EXCEPT ![s] =
               IF st_history # <<>>
               THEN [pc |-> "replay", idx |-> 2,
                     joined_at |-> Len(st_history),
                     yielded |-> <<st_history[1]>>, last |-> Sentinel]
               ELSE [pc |-> "get", idx |-> 1,
                     joined_at |-> 0, yielded |-> <<>>, last |-> Sentinel]]
    /\ UNCHANGED <<st_history, st_emit, st_closed>>
    /\ UNCHANGED <<wfVars, reqVars, discVars, srchVars, coVars, cnVars, opVars, cmpVars, mmVars>>

\* The stream ends: the finally block removes the queue from the session's
\* list if it is (still) there.
EndStream(s) ==
    /\ st_sub' = [st_sub EXCEPT ![s].pc = "ended"]
    /\ st_registry' = Remove(st_registry, s)
    /\ UNCHANGED st_queue

\* await queue.get() and what follows it up to the next yield: with an
\* empty queue the generator waits; the sentinel ends the stream; an event
\* is yielded.
QueueGet(s) ==
    IF st_queue[s] = <<>>
    THEN /\ st_sub[s].pc # "get"
         /\ st_sub' = [st_sub EXCEPT ![s].pc = "get"]
         /\ UNCHANGED <<st_queue, st_registry>>
    ELSE IF Head(st_queue[s]) = Sentinel
         THEN /\ st_sub' = [st_sub EXCEPT ![s].pc = "ended"]
              /\ st_queue' = [st_queue EXCEPT ![s] = Tail(@)]
              /\ st_registry' = Remove(st_registry, s)
         ELSE /\ st_sub' = [st_sub EXCEPT
                    ![s].pc = "yielded",
                    ![s].last = Head(st_queue[s]),
                    ![s].yielded = Append(@, Head(st_queue[s]))]
              /\ st_queue' = [st_queue EXCEPT ![s] = Tail(@)]
              /\ UNCHANGED st_registry

\* The consumer asks for the next event: subscribe() resumes after its last
\* yield, or wakes up from waiting on its queue, and runs to its next yield,
\* to its next wait, or to its end.
subscribe_next ==
    /\ \E s \in Subscribers :
         CASE st_sub[s].pc = "replay" ->
                IF st_sub[s].idx <= Len(st_history)
                THEN /\ st_sub' = [st_sub EXCEPT
                           ![s].idx = @ + 1,
                           ![s].yielded = Append(@, st_history[st_sub[s].idx])]
                     /\ UNCHANGED <<st_queue, st_registry>>
                ELSE QueueGet(s)
           [] st_sub[s].pc = "yielded" ->
                IF IsTerminal(st_sub[s].last) THEN EndStream(s) ELSE QueueGet(s)
           [] st_sub[s].pc = "get" -> QueueGet(s)
           [] OTHER -> FALSE
    /\ UNCHANGED <<st_history, st_emit, st_closed>>
    /\ UNCHANGED <<wfVars, reqVars, discVars, srchVars, coVars, cnVars, opVars, cmpVars, mmVars>>

\* close(session): the sentinel is put on every registered queue that is not
\* full, and the session's list of queues is dropped.
close ==
    /\ st_closed = {}
    /\ st_registry # <<>>
    /\ st_queue' = [s \in Subscribers |->
                       IF s \in Range(st_registry) /\ ~IsFull(st_queue[s])
                       THEN Append(st_queue[s], Sentinel)
                       ELSE st_queue[s]]
    /\ st_registry' = <<>>
    /\ st_closed' = Range(st_registry)
    /\ UNCHANGED <<st_history, st_sub, st_emit>>
    /\ UNCHANGED <<wfVars, reqVars, discVars, srchVars, coVars, cnVars, opVars, cmpVars, mmVars>>

-----------------------------------------------------------------------------
(* Cancellation of the workflow task while a fan-out is in flight:
   api.py cancel_shopping_session, the gather of the three agents *)

FanOuts == {"discovery", "search", "checkout"}

CancelMerchants == {"m1", "m2"}

\* The protocol calls one per-merchant task makes: discover; search_products;
\* create_checkout, update_checkout, complete_checkout.
StepsOf(kind) == IF kind = "checkout" THEN Len(CheckoutSteps) ELSE 1

\* A task created by the gather that has not run yet.
NewTask == [pc |-> "created", steps |-> 0, must_cancel |-> FALSE]

TaskOver(task) == task.pc \in {"done", "cancelled"}

\* Task.cancel(): a task that is not over has CancelledError thrown into it
\* the next time it runs.
TaskCancel(task) ==
    IF TaskOver(task) THEN task ELSE [task EXCEPT !.must_cancel = TRUE]

\* Mutant of GatherCancel: cancelling the gather leaves its children alone.
GatherCancel_leaves_children(children) == children

\* Cancelling the future of asyncio.gather cancels every child that is not
\* over.
GatherCancel(children) ==
    [m \in DOMAIN children |-> TaskCancel(children[m])]

\* A per-merchant task runs: CancelledError ends it if its cancellation was
\* requested (none of the agents' handlers catches it); otherwise it issues
\* its next protocol call, or returns when it has none left.
merchant_task_step ==
    /\ \E m \in CancelMerchants :
         /\ ~TaskOver(cn_child[m])
         /\ cn_child' = [cn_child EXCEPT ![m] =
               IF @.must_cancel THEN [@ EXCEPT !.pc = "cancelled"]
               ELSE IF @.steps < StepsOf(cn_kind)
                    THEN [@ EXCEPT !.pc = "awaiting", !.steps = @ + 1]
                    ELSE [@ EXCEPT !.pc = "done"]]
    /\ UNCHANGED <<cn_kind, cn_task, cn_session, cn_cancelled>>
    /\ UNCHANGED <<wfVars, reqVars, discVars, srchVars, coVars, stVars, opVars, cmpVars, mmVars>>

\* The workflow task runs again once the gather is over: CancelledError ends
\* it if it was cancelled; otherwise the graph runs on to its end and
\* _run_graph persists the state and error of its result.
workflow_task_step ==
    /\ cn_task.pc = "awaiting"
    /\ \A m \in CancelMerchants : TaskOver(cn_child[m])
    /\ IF cn_task.must_cancel
       THEN /\ cn_task' = [cn_task EXCEPT !.pc = "cancelled"]
            /\ UNCHANGED cn_session
       ELSE /\ cn_task' = [cn_task EXCEPT !.pc = "done"]
            /\ \E r \in {[state |-> COMPLETED, error |-> NoError],
                          [state |-> FAILED, error |-> NoError]} :
                 cn_session' = r
    /\ UNCHANGED <<cn_kind, cn_child, cn_cancelled>>
    /\ UNCHANGED <<wfVars, reqVars, discVars, srchVars, coVars, stVars, opVars, cmpVars, mmVars>>

\* POST /shop/{id}/cancel: the task, if not done, is cancelled, and with it
\* the gather it awaits; the session is marked failed.
cancel_fan_out ==
    /\ ~cn_cancelled
    /\ cn_kind \in FanOuts
    /\ IF TaskOver(cn_task)
       THEN UNCHANGED <<cn_task, cn_child>>
       ELSE /\ cn_task' = TaskCancel(cn_task)
            /\ cn_child' = GatherCancel(cn_child)
    /\ cn_session' = [state |-> FAILED, error |-> "Cancelled by user."]
    /\ cn_cancelled' = TRUE
    /\ UNCHANGED cn_kind
    /\ UNCHANGED <<wfVars, reqVars, discVars, srchVars, coVars, stVars, opVars, cmpVars, mmVars>>

-----------------------------------------------------------------------------
(* The split-order optimizer: agents/optimizer.py.
   Amounts are in thousandths of a dollar, so that rounding to two decimals
   changes an amount. *)

\* free_shipping_threshold = 100.0
FreeShippingThreshold == 100000

\* The shipping cost of a product that lists no shipping option: 5.99
DefaultShipping == 5990

\* round(x, 2): to the nearest hundredth, a tie going to the even one.
Round2(x) ==
    LET q == x \div 10
        r == x % 10
    IN  IF r < 5 \/ (r = 5 /\ q % 2 = 0) THEN q * 10 ELSE (q + 1) * 10

Max(a, b) == IF a >= b THEN a ELSE b

RECURSIVE SumSeq(_)
SumSeq(s) == IF s = <<>> THEN 0 ELSE Head(s) + SumSeq(Tail(s))

\* The elements of s, each at its first occurrence.
RECURSIVE FirstOccurrences(_)
FirstOccurrences(s) ==
    IF s = <<>> THEN <<>>
    ELSE LET init == FirstOccurrences(SubSeq(s, 1, Len(s) - 1))
             last == s[Len(s)]
         IN  IF \E i \in 1..Len(init) : init[i] = last
             THEN init ELSE Append(init, last)

UpperLetters == "ABCDEFGHIJKLMNOPQRSTUVWXYZ"

LowerLetters == "abcdefghijklmnopqrstuvwxyz"

\* The lower-case letter of each upper-case letter.
LowerOf ==
    LET at(c) == CHOOSE i \in 1..Len(UpperLetters) : SubSeq(UpperLetters, i, i) = c
    IN  [c \in {SubSeq(UpperLetters, i, i) : i \in 1..Len(UpperLetters)} |->
           SubSeq(LowerLetters, at(c), at(c))]

LowerChar(c) == IF c \in DOMAIN LowerOf THEN LowerOf[c] ELSE c

\* str.lower()
RECURSIVE Lower(_)
Lower(b) ==
    IF b = "" THEN ""
    ELSE LowerChar(SubSeq(b, 1, 1)) \o Lower(SubSeq(b, 2, Len(b)))

ShippingOption(price, days_max, is_free) ==
    [price |-> price, estimated_days_max |-> days_max, is_free |-> is_free]

ProductResult(id, merchant, price, brand, rating, options) ==
    [product_id |-> id, merchant_id |-> merchant, price |-> price,
     brand |-> brand, rating |-> rating, shipping_options |-> options]

\* The products merchants offer: ratings are in tenths.
Catalog ==
    { ProductResult("kb-1", "techzone", 99992, "Acme", 45,
                    <<ShippingOption(4992, 7, FALSE)>>),
      ProductResult("kb-2", "megamart", 100004, "other", 30, <<>>),
      ProductResult("hub-1", "techzone", 30004, "other", 48,
                    <<ShippingOption(9990, 2, FALSE),
                      ShippingOption(0, 3, TRUE)>>) }

\* An offer whose price + cheapest shipping equals that of hub-1.
TiedHub ==
    ProductResult("hub-2", "megamart", 26504, "other", 40,
                  <<ShippingOption(3500, 1, FALSE)>>)

Hub1 == CHOOSE p \in Catalog : p.product_id = "hub-1"

\* The merchant_results of an entry: distinct products, in any order, and
\* the two offers of equal cost in either order.
ResultLists ==
    { r \in UNION {[1..n -> Catalog] : n \in 0..MaxResults} :
        \A i, j \in 1..Len(r) : i # j => r[i] # r[j] }
    \cup { <<Hub1, TiedHub>>, <<TiedHub, Hub1>> }

\* The item names of the shopping plan.
QueryNames == <<"keyboard", "usb hub", "mouse", "monitor">>

\* The lists of n item names: all different, or the second item repeating
\* the name of the first (the planner does not remove repeated names).
NameLists(n) ==
    {[i \in 1..n |-> QueryNames[i]]}
    \cup (IF n >= 2
          THEN {[i \in 1..n |-> IF i = 2 THEN QueryNames[1] ELSE QueryNames[i]]}
          ELSE {})

\* One entry per item name, in the order of the names.
Matrices ==
    UNION { { [i \in 1..n |-> [product_query |-> names[i],
                               merchant_results |-> results[i]]]
              : names \in NameLists(n), results \in [1..n -> ResultLists] }
            : n \in 0..MaxEntries }

\* ShoppingPreferences: an optional field is <<>> or holds its value.
Preferences ==
    [prefer_single_merchant : BOOLEAN,
     max_shipping_days : {<<>>, <<1>>},
     prefer_free_shipping : BOOLEAN,
     preferred_brands : {{}, {"ACME"}},
     min_rating : {<<>>, <<45>>}]

DefaultPreferences ==
    [prefer_single_merchant |-> FALSE, max_shipping_days |-> <<>>,
     prefer_free_shipping |-> FALSE, preferred_brands |-> {},
     min_rating |-> <<>>]

cheapest_shipping_cost(product) ==
    IF product.shipping_options = <<>> THEN DefaultShipping
    ELSE LET so == product.shipping_options
             i == CHOOSE i \in 1..Len(so) :
                      \A j \in 1..Len(so) : so[i].price <= so[j].price
         IN  so[i].price

apply_preference_filters(products, prefs) ==
    LET in_time(p) ==
            \/ \E i \in 1..Len(p.shipping_options) :
                 p.shipping_options[i].estimated_days_max
                     <= prefs.max_shipping_days[1]
            \/ p.shipping_options = <<>>
        by_days == IF prefs.max_shipping_days # <<>>
                   THEN SelectSeq(products, in_time) ELSE products
        ships_free(p) ==
            \E i \in 1..Len(p.shipping_options) :
                p.shipping_options[i].is_free \/ p.shipping_options[i].price = 0
        free_options == SelectSeq(by_days, ships_free)
        by_free == IF prefs.prefer_free_shipping /\ free_options # <<>>
                   THEN free_options ELSE by_days
        brand_lower == {Lower(b) : b \in prefs.preferred_brands}
        of_brand(p) == Lower(p.brand) \in brand_lower
        brand_matches == SelectSeq(by_free, of_brand)
        by_brand == IF prefs.preferred_brands # {} /\ brand_matches # <<>>
                    THEN brand_matches ELSE by_free
        well_rated(p) == p.rating >= prefs.min_rating[1]
        rated == SelectSeq(by_brand, well_rated)
    IN  IF prefs.min_rating # <<>> /\ rated # <<>> THEN rated ELSE by_brand

\* SplitOrderItem(...) with model_post_init: total = round(price + shipping, 2)
SplitOrderItem(product, shipping) ==
    [product_id |-> product.product_id, merchant_id |-> product.merchant_id,
     price |-> product.price, shipping_cost |-> shipping,
     total |-> Round2(product.price + shipping)]

\* Mutant of CheapestCandidate: the last of the minima.
CheapestCandidate_last_minimum(candidates) ==
    LET cost(p) == p.price + cheapest_shipping_cost(p)
        i == CHOOSE i \in 1..Len(candidates) :
                 /\ \A j \in 1..Len(candidates) :
                        cost(candidates[i]) <= cost(candidates[j])
                 /\ \A j \in (i + 1)..Len(candidates) :
                        cost(candidates[j]) > cost(candidates[i])
    IN  candidates[i]

\* min(candidates, key = price + cheapest shipping): the first of the minima.
CheapestCandidate(candidates) ==
    LET cost(p) == p.price + cheapest_shipping_cost(p)
        i == CHOOSE i \in 1..Len(candidates) :
                 /\ \A j \in 1..Len(candidates) :
                        cost(candidates[i]) <= cost(candidates[j])
                 /\ \A j \in 1..(i - 1) :
                        cost(candidates[j]) > cost(candidates[i])
    IN  candidates[i]

\* The loop of _optimize_split over the entries of the matrix.
RECURSIVE SplitItems(_, _)
SplitItems(entries, prefs) ==
    IF entries = <<>> THEN <<>>
    ELSE LET entry == Head(entries)
             rest == SplitItems(Tail(entries), prefs)
             filtered == apply_preference_filters(entry.merchant_results, prefs)
             candidates == IF filtered = <<>> THEN entry.merchant_results
                           ELSE filtered
             best == CheapestCandidate(candidates)
         IN  IF entry.merchant_results = <<>> THEN rest
             ELSE <<SplitOrderItem(best, cheapest_shipping_cost(best))>> \o rest

\* Mutant of apply_free_shipping_thresholds: the shipping is waived but the
\* item's total is left as it was.
apply_free_shipping_thresholds_stale_total(items) ==
    LET merchant_subtotals(m) ==
            SumSeq([i \in 1..Len(items) |->
                      IF items[i].merchant_id = m THEN items[i].price ELSE 0])
    IN  [i \in 1..Len(items) |->
           IF merchant_subtotals(items[i].merchant_id) >= FreeShippingThreshold
           THEN [items[i] EXCEPT !.shipping_cost = 0]
           ELSE items[i]]

\* _apply_free_shipping_thresholds: an item of a merchant whose items' prices
\* add up to the threshold ships free, its total becoming round(price, 2).
apply_free_shipping_thresholds(items) ==
    LET merchant_subtotals(m) ==
            SumSeq([i \in 1..Len(items) |->
                      IF items[i].merchant_id = m THEN items[i].price ELSE 0])
    IN  [i \in 1..Len(items) |->
           IF merchant_subtotals(items[i].merchant_id) >= FreeShippingThreshold
           THEN [items[i] EXCEPT !.shipping_cost = 0,
                                 !.total = Round2(items[i].price)]
           ELSE items[i]]

\* The totals of a plan, as both modes compute them.
SplitOrderPlan(items, savings, merchants_used) ==
    LET total_product == Round2(SumSeq([i \in 1..Len(items) |-> items[i].price]))
        total_shipping ==
            Round2(SumSeq([i \in 1..Len(items) |-> items[i].shipping_cost]))
    IN  [items |-> items,
         total_product_cost |-> total_product,
         total_shipping_cost |-> total_shipping,
         grand_total |-> Round2(total_product + total_shipping),
         savings_vs_single |-> savings,
         merchants_used |-> merchants_used]

\* SplitOrderPlan(items=[]): every total at its default.
EmptyPlan ==
    [items |-> <<>>, total_product_cost |-> 0, total_shipping_cost |-> 0,
     grand_total |-> 0, savings_vs_single |-> 0, merchants_used |-> 0]

\* Every (query, product) of the matrix, entry by entry.
RECURSIVE Offers(_)
Offers(entries) ==
    IF entries = <<>> THEN <<>>
    ELSE LET entry == Head(entries)
         IN  [i \in 1..Len(entry.merchant_results) |->
                [query |-> entry.product_query,
                 product |-> entry.merchant_results[i]]]
             \o Offers(Tail(entries))

\* The plan of one merchant from what it offers, or EmptyPlan if it does not
\* cover every entry.
MerchantPlan(available, num_items) ==
    LET queries == FirstOccurrences(
                       [i \in 1..Len(available) |-> available[i].query])
        cheapest(q) ==
            LET i == CHOOSE i \in 1..Len(available) :
                         /\ available[i].query = q
                         /\ \A j \in 1..Len(available) :
                              available[j].query = q =>
                                /\ available[i].product.price
                                       <= available[j].product.price
                                /\ j < i => available[j].product.price
                                               > available[i].product.price
            IN  available[i].product
        items == [k \in 1..Len(queries) |->
                    SplitOrderItem(cheapest(queries[k]),
                                   cheapest_shipping_cost(cheapest(queries[k])))]
    IN  IF Len(queries) < num_items THEN EmptyPlan
        ELSE SplitOrderPlan(items, 0, 1)

optimize_single_merchant(matrix, prefs) ==
    LET offers == Offers(matrix)
        merchants == FirstOccurrences(
                         [i \in 1..Len(offers) |-> offers[i].product.merchant_id])
        of_merchant(m) ==
            LET sells(o) == o.product.merchant_id = m
            IN  SelectSeq(offers, sells)
        covers(m) ==
            Len(FirstOccurrences(
                    [i \in 1..Len(of_merchant(m)) |-> of_merchant(m)[i].query]))
                >= Len(matrix)
        plan(k) == MerchantPlan(of_merchant(merchants[k]), Len(matrix))
        qualifying == {k \in 1..Len(merchants) : covers(merchants[k])}
    IN  IF qualifying = {} THEN EmptyPlan
        ELSE plan(CHOOSE k \in qualifying :
                    /\ \A j \in qualifying :
                         plan(k).grand_total <= plan(j).grand_total
                    /\ \A j \in qualifying :
                         j < k => plan(j).grand_total > plan(k).grand_total)

\* Mutant of Savings: the difference is not clamped at zero.
Savings_unclamped(single_total, grand_total) ==
    Round2(single_total - grand_total)

\* round(max(0.0, single_plan.grand_total - grand_total), 2)
Savings(single_total, grand_total) ==
    Round2(Max(0, single_total - grand_total))

optimize_split(matrix, prefs) ==
    LET items == apply_free_shipping_thresholds(SplitItems(matrix, prefs))
        totals == SplitOrderPlan(items, 0, 0)
        single_plan == optimize_single_merchant(matrix, prefs)
    IN  SplitOrderPlan(items,
                       Savings(single_plan.grand_total, totals.grand_total),
                       Cardinality({items[i].merchant_id : i \in 1..Len(items)}))

optimize(matrix, prefs) ==
    IF prefs.prefer_single_merchant
    THEN optimize_single_merchant(matrix, prefs)
    ELSE optimize_split(matrix, prefs)

\* One call of SplitOrderOptimizer.optimize.
optimizer_call ==
    /\ op_pc = "input"
    /\ op_plan' = optimize(op_matrix, op_prefs)
    /\ op_pc' = "done"
    /\ UNCHANGED <<op_matrix, op_prefs>>
    /\ UNCHANGED <<wfVars, reqVars, discVars, srchVars, coVars, stVars, cnVars, cmpVars, mmVars>>

-----------------------------------------------------------------------------
(* The comparison engine: agents/comparison_agent.py.
   Amounts are in hundredths of a dollar, scores in ten-thousandths. *)

\* The shipping cost of a product that lists no shipping option: 5.99
DefaultShippingCents == 599

\* The delivery days of a product that lists no shipping option: 5
DefaultDeliveryDays == 5

\* The weights of the composite score, in hundredths.
WEIGHT_PRICE == 50
WEIGHT_SHIPPING == 25
WEIGHT_AVAILABILITY == 15
WEIGHT_DELIVERY == 10

\* kw in text
IsSubstring(kw, text) ==
    \E i \in 1..(Len(text) - Len(kw) + 1) : SubSeq(text, i, i + Len(kw) - 1) = kw

\* str.split(): the words of s, cur being the word read so far.
RECURSIVE SplitFrom(_, _)
SplitFrom(s, cur) ==
    LET word == IF cur = "" THEN <<>> ELSE <<cur>>
    IN  IF s = "" THEN word
        ELSE IF SubSeq(s, 1, 1) = " "
             THEN word \o SplitFrom(SubSeq(s, 2, Len(s)), "")
             ELSE SplitFrom(SubSeq(s, 2, Len(s)), cur \o SubSeq(s, 1, 1))

Split(s) == SplitFrom(s, "")

Delivery(price, days_min) == [price |-> price, estimated_days_min |-> days_min]

Offer(id, name, merchant, price, in_stock, options) ==
    [product_id |-> id, name |-> name, description |-> "", category |-> "",
     brand |-> "", merchant_id |-> merchant, price |-> price,
     in_stock |-> in_stock, shipping_options |-> options, score |-> 0]

\* The products of tests/test_comparison.py sample_search_results.
TzKeyboard == Offer("tz-kb-001", "Mechanical Keyboard Pro", "techzone", 8999,
                    TRUE, <<Delivery(599, 5)>>)
TzHub == Offer("tz-hub-001", "USB-C Hub 7-in-1", "techzone", 4599,
               TRUE, <<Delivery(599, 5)>>)
HgKeyboard == Offer("hg-kb-001", "Ergonomic Mechanical Keyboard", "homegoods",
                    9999, TRUE, <<Delivery(0, 5)>>)
HgHub == Offer("hg-hub-001", "USB-C Docking Hub", "homegoods", 3499,
               TRUE, <<Delivery(0, 5)>>)
MmKeyboard == Offer("mm-kb-001", "Gaming Mechanical Keyboard", "megamart",
                    6999, TRUE, <<Delivery(899, 3)>>)
MmHub == Offer("mm-hub-001", "USB-C Hub Pro", "megamart", 3999,
               TRUE, <<Delivery(899, 3)>>)

\* Two more: the cheapest keyboard, out of stock and listing no shipping
\* option, and a hub at the price of another with two shipping options.
OutOfStockKeyboard == Offer("tz-kb-002", "Wireless keyboard", "techzone", 6899,
                            FALSE, <<>>)
FastHub == Offer("hg-hub-002", "Hub and Keyboard Dock", "homegoods", 3999,
                 TRUE, <<Delivery(1299, 1), Delivery(0, 6)>>)

Offers8 ==
    {TzKeyboard, TzHub, HgKeyboard, HgHub, MmKeyboard, MmHub,
     OutOfStockKeyboard, FastHub}

\* A dict merchant_id -> products in insertion order, made from a list of
\* products as search_all_merchants aggregates it.
GroupByMerchant(products) ==
    LET merchants == FirstOccurrences(
                         [i \in 1..Len(products) |-> products[i].merchant_id])
    IN  [k \in 1..Len(merchants) |->
           [merchant_id |-> merchants[k],
            products |-> LET of_merchant(p) == p.merchant_id = merchants[k]
                         IN  SelectSeq(products, of_merchant)]]

sample_search_results ==
    GroupByMerchant(<<TzKeyboard, TzHub, HgKeyboard, HgHub, MmKeyboard, MmHub>>)

SearchResults ==
    { GroupByMerchant(s) :
        s \in { r \in UNION {[1..n -> Offers8] : n \in 0..MaxOffers} :
                  \A i, j \in 1..Len(r) : i # j => r[i] # r[j] } }
    \cup {sample_search_results}

ItemNames == {"keyboard", "USB hub", "TV"}

ItemNameLists == UNION {[1..n -> ItemNames] : n \in 0..MaxEntries}

\* all_products: the values of the dict, one list after the other.
RECURSIVE Flatten(_)
Flatten(search_results) ==
    IF search_results = <<>> THEN <<>>
    ELSE Head(search_results).products \o Flatten(Tail(search_results))

find_matching_products(products, item_name) ==
    LET long == {w \in Range(Split(item_name)) : Len(w) > 2}
        keywords == IF long = {} THEN {Lower(item_name)}
                    ELSE {Lower(w) : w \in long}
        product_text(p) ==
            Lower(p.name \o " " \o p.description \o " " \o p.category
                  \o " " \o p.brand)
        matches(p) == \E kw \in keywords : IsSubstring(kw, product_text(p))
    IN  SelectSeq(products, matches)

cheapest_shipping(product) ==
    IF product.shipping_options = <<>> THEN DefaultShippingCents
    ELSE LET so == product.shipping_options
             i == CHOOSE i \in 1..Len(so) :
                      \A j \in 1..Len(so) : so[i].price <= so[j].price
         IN  so[i].price

fastest_delivery(product) ==
    IF product.shipping_options = <<>> THEN DefaultDeliveryDays
    ELSE LET so == product.shipping_options
             i == CHOOSE i \in 1..Len(so) :
                      \A j \in 1..Len(so) :
                          so[i].estimated_days_min <= so[j].estimated_days_min
         IN  so[i].estimated_days_min

SeqMin(s) == CHOOSE x \in Range(s) : \A y \in Range(s) : x <= y

SeqMax(s) == CHOOSE x \in Range(s) : \A y \in Range(s) : x >= y

\* max - min of the values, or 1 when they are all equal.
Spread(values) ==
    IF SeqMax(values) # SeqMin(values) THEN SeqMax(values) - SeqMin(values)
    ELSE 1

\* round(x, 4) of the sum of an integer number of ten-thousandths and three
\* fractions n[k]/d[k] of one: to the nearest, a tie going to the even one.
Round4(whole, n, d) ==
    LET common == d[1] * d[2] * d[3]
        parts == n[1] * d[2] * d[3] + n[2] * d[1] * d[3] + n[3] * d[1] * d[2]
        floor == whole + parts \div common
        twice == 2 * (parts % common)
    IN  IF twice < common \/ (twice = common /\ floor % 2 = 0)
        THEN floor ELSE floor + 1

\* Mutant of Composite: the availability term is added twice.
Composite_overweight(price_part, ship_part, days_part, in_stock) ==
    LET u == 100
        terms == <<WEIGHT_PRICE * u * price_part[1],
                   WEIGHT_SHIPPING * u * ship_part[1],
                   WEIGHT_DELIVERY * u * days_part[1]>>
        d == <<price_part[2], ship_part[2], days_part[2]>>
        whole == (terms[1] \div d[1]) + (terms[2] \div d[2]) + (terms[3] \div d[3])
                 + 2 * (IF in_stock THEN WEIGHT_AVAILABILITY * u ELSE 0)
    IN  Round4(whole, <<terms[1] % d[1], terms[2] % d[2], terms[3] % d[3]>>, d)

\* Mutant of Composite: the weights of price and of shipping are exchanged.
Composite_swapped_weights(price_part, ship_part, days_part, in_stock) ==
    LET u == 100
        terms == <<WEIGHT_SHIPPING * u * price_part[1],
                   WEIGHT_PRICE * u * ship_part[1],
                   WEIGHT_DELIVERY * u * days_part[1]>>
        d == <<price_part[2], ship_part[2], days_part[2]>>
        whole == (terms[1] \div d[1]) + (terms[2] \div d[2]) + (terms[3] \div d[3])
                 + (IF in_stock THEN WEIGHT_AVAILABILITY * u ELSE 0)
    IN  Round4(whole, <<terms[1] % d[1], terms[2] % d[2], terms[3] % d[3]>>, d)

\* The composite score: each part is a pair <<range - distance, range>>,
\* the score of one criterion as a fraction.
Composite(price_part, ship_part, days_part, in_stock) ==
    LET u == 100
        terms == <<WEIGHT_PRICE * u * price_part[1],
                   WEIGHT_SHIPPING * u * ship_part[1],
                   WEIGHT_DELIVERY * u * days_part[1]>>
        d == <<price_part[2], ship_part[2], days_part[2]>>
        whole == (terms[1] \div d[1]) + (terms[2] \div d[2]) + (terms[3] \div d[3])
                 + (IF in_stock THEN WEIGHT_AVAILABILITY * u ELSE 0)
    IN  Round4(whole, <<terms[1] % d[1], terms[2] % d[2], terms[3] % d[3]>>, d)

score_products(products) ==
    LET prices == [i \in 1..Len(products) |-> products[i].price]
        shipping_costs == [i \in 1..Len(products) |-> cheapest_shipping(products[i])]
        delivery_days == [i \in 1..Len(products) |-> fastest_delivery(products[i])]
        part(values, i) ==
            <<Spread(values) - (values[i] - SeqMin(values)), Spread(values)>>
    IN  [i \in 1..Len(products) |->
           [products[i] EXCEPT !.score =
               Composite(part(prices, i), part(shipping_costs, i),
                         part(delivery_days, i), products[i].in_stock)]]

\* list.sort(key = score, reverse = True): stable, highest score first.
RECURSIVE SortByScore(_)
SortByScore(s) ==
    IF s = <<>> THEN <<>>
    ELSE LET init == SortByScore(SubSeq(s, 1, Len(s) - 1))
             last == s[Len(s)]
             k == Cardinality({i \in 1..Len(init) : init[i].score >= last.score})
         IN  SubSeq(init, 1, k) \o <<last>> \o SubSeq(init, k + 1, Len(init))

\* min(s, key = ...): the first of the minima.
FirstMin(s, key(_)) ==
    s[CHOOSE i \in 1..Len(s) :
        /\ \A j \in 1..Len(s) : key(s[i]) <= key(s[j])
        /\ \A j \in 1..(i - 1) : key(s[j]) > key(s[i])]

\* Mutant of BestPrice: the highest-scored product instead of the cheapest.
BestPrice_takes_recommended(scored) == scored[1]

\* min(scored, key = price)
BestPrice(scored) ==
    LET price_of(p) == p.price
    IN  FirstMin(scored, price_of)

\* The entry build_comparison makes for one item name; an absent
\* best_price, best_shipping or recommended is <<>>.
ComparisonEntry(all_products, item_name) ==
    LET matching == find_matching_products(all_products, item_name)
        scored == SortByScore(score_products(matching))
    IN  IF matching = <<>>
        THEN [product_query |-> item_name, merchant_results |-> <<>>,
              best_price |-> <<>>, best_shipping |-> <<>>, recommended |-> <<>>]
        ELSE [product_query |-> item_name, merchant_results |-> scored,
              best_price |-> <<BestPrice(scored)>>,
              best_shipping |-> <<FirstMin(scored, cheapest_shipping)>>,
              recommended |-> <<scored[1]>>]

\* Mutant of build_comparison: an item name that matches nothing gets no
\* entry.
build_comparison_drops_unmatched(search_results, item_names) ==
    LET all_products == Flatten(search_results)
        matched(name) == find_matching_products(all_products, name) # <<>>
        kept == SelectSeq(item_names, matched)
        entries == [i \in 1..Len(kept) |-> ComparisonEntry(all_products, kept[i])]
    IN  [entries |-> entries,
         total_merchants |-> 0,
         total_products_found |->
             SumSeq([i \in 1..Len(entries) |-> Len(entries[i].merchant_results)])]

build_comparison(search_results, item_names) ==
    LET all_products == Flatten(search_results)
        entries == [i \in 1..Len(item_names) |->
                      ComparisonEntry(all_products, item_names[i])]
        found == UNION {Range(entries[i].merchant_results) : i \in 1..Len(entries)}
    IN  [entries |-> entries,
         total_merchants |-> Cardinality({p.merchant_id : p \in found}),
         total_products_found |->
             SumSeq([i \in 1..Len(entries) |-> Len(entries[i].merchant_results)])]

NoMatrix == [entries |-> <<>>, total_merchants |-> 0, total_products_found |-> 0]

\* One call of ComparisonAgent.build_comparison.
comparison_call ==
    /\ cmp_pc = "input"
    /\ cmp_matrix' = build_comparison(cmp_search_results, cmp_item_names)
    /\ cmp_pc' = "done"
    /\ UNCHANGED <<cmp_search_results, cmp_item_names>>
    /\ UNCHANGED <<wfVars, reqVars, discVars, srchVars, coVars, stVars, cnVars, opVars, mmVars>>

-----------------------------------------------------------------------------
(* A mock merchant's checkout endpoints: mock_merchants/merchant_app.py.
   Amounts are in hundredths of a currency unit.  The handlers are
   coroutines without an await, so each request is one step.  An optional
   value is <<>> (None) or <<v>>; <<"">> is the empty address {}. *)

MerchantFreeShippingThreshold == 10000
InitialShippingCost == 599
TaxRatePerTenThousand == 875

\* merchant.products: id and price.
MerchantProducts ==
    << [id |-> "p1", price |-> 4999], [id |-> "p2", price |-> 5999] >>

\* merchant.shipping_options, the default list.
MerchantShippingOptions ==
    << [id |-> "standard", price |-> 599],
       [id |-> "express", price |-> 1299],
       [id |-> "overnight", price |-> 2499] >>

LineItem(product_id, quantity) == [product_id |-> product_id, quantity |-> quantity]

\* The line_items of the create requests tried.
LineItemLists ==
    { << LineItem("p1", 1) >>,
      << LineItem("p2", 2) >>,
      << LineItem("p1", 1), LineItem("p9", 1) >> }

\* The bodies of the update requests tried.
UpdateRequests ==
    [shipping_address : {<<>>, <<"">>, <<"123 Main St">>},
     selected_shipping_id : {<<>>, <<"express">>, <<"pigeon">>}]

\* uuid4().hex[:8]: an order id may repeat.
OrderIds == {"ORD-1", "ORD-2"}

\* Truth value of an optional dict or string: None and the empty value are
\* false.
Truthy(optional) == optional # <<>> /\ optional[1] # ""

\* The first product of the catalog with that id, if any.
FindProduct(product_id) ==
    LET hits == {i \in 1..Len(MerchantProducts) :
                    MerchantProducts[i].id = product_id}
    IN  IF hits = {} THEN <<>>
        ELSE << MerchantProducts[CHOOSE i \in hits : \A j \in hits : i <= j] >>

\* The first shipping option with that id, if any.
FindShippingOption(shipping_id) ==
    LET hits == {i \in 1..Len(MerchantShippingOptions) :
                    MerchantShippingOptions[i].id = shipping_id}
    IN  IF hits = {} THEN <<>>
        ELSE << MerchantShippingOptions[CHOOSE i \in hits : \A j \in hits : i <= j] >>

\* round(amount * 0.0875, 2), half to even.
MerchantTax(amount) ==
    LET n == amount * TaxRatePerTenThousand
        q == n \div 10000
        r == n % 10000
    IN  IF r < 5000 \/ (r = 5000 /\ q % 2 = 0) THEN q ELSE q + 1

\* The subtotal of resolved line items: the sum of price * quantity.
RECURSIVE LineItemsSubtotal(_)
LineItemsSubtotal(line_items) ==
    IF line_items = <<>> THEN 0
    ELSE FindProduct(Head(line_items).product_id)[1].price * Head(line_items).quantity
         + LineItemsSubtotal(Tail(line_items))

\* The session create_checkout stores.
NewCheckoutSession(line_items) ==
    LET subtotal == LineItemsSubtotal(line_items)
    IN  [state |-> "incomplete",
         line_items |-> line_items,
         subtotal |-> subtotal,
         tax |-> MerchantTax(subtotal),
         shipping_cost |-> InitialShippingCost,
         discount_amount |-> 0,
         total |-> subtotal + MerchantTax(subtotal) + InitialShippingCost,
         shipping_address |-> <<>>,
         selected_shipping |-> <<>>,
         order_id |-> <<>>]

\* Mutant of CanComplete: a session is completed whatever its state.
CanComplete_any_state(state) == TRUE

\* complete_checkout accepts a session in one of these states.
CanComplete(state) == state \in {"ready_for_complete", "incomplete"}

\* The session as update_checkout leaves it.
UpdatedCheckoutSession(checkout, req) ==
    LET shipping_address ==
            IF Truthy(req.shipping_address) THEN req.shipping_address
            ELSE checkout.shipping_address
        option ==
            IF Truthy(req.selected_shipping_id)
            THEN FindShippingOption(req.selected_shipping_id[1])
            ELSE <<>>
        selected_shipping ==
            IF option # <<>> THEN << option[1].id >> ELSE checkout.selected_shipping
        shipping_cost ==
            IF checkout.subtotal >= MerchantFreeShippingThreshold THEN 0
            ELSE IF option # <<>> THEN option[1].price
            ELSE checkout.shipping_cost
        state ==
            IF Truthy(shipping_address) /\ checkout.state = "incomplete"
            THEN "ready_for_complete" ELSE checkout.state
    IN  [checkout EXCEPT
            !.shipping_address = shipping_address,
            !.selected_shipping = selected_shipping,
            !.shipping_cost = shipping_cost,
            !.total = checkout.subtotal + checkout.tax + shipping_cost
                      - checkout.discount_amount,
            !.state = state]

\* The order complete_checkout stores.
NewOrder(session_id, checkout) ==
    [checkout_session_id |-> session_id,
     state |-> "confirmed",
     shipping_address |-> checkout.shipping_address,
     total |-> checkout.total]

NoBody == [state |-> "", order_id |-> <<>>]

MerchantCall(op, session_id, request, status_code, body) ==
    [op |-> op, session_id |-> session_id, request |-> request,
     status_code |-> status_code, body |-> body]

NoCall == MerchantCall("none", 0, <<>>, 0, NoBody)

\* POST /api/v1/checkout/sessions
create_checkout ==
    /\ Len(mm_sessions) < MaxSessions
    /\ \E line_items \in LineItemLists :
         LET session_id == Len(mm_sessions) + 1 IN
         IF \E i \in 1..Len(line_items) : FindProduct(line_items[i].product_id) = <<>>
         THEN /\ mm_call' = MerchantCall("create", 0, line_items, 404, NoBody)
              /\ UNCHANGED <<mm_sessions, mm_orders>>
         ELSE /\ mm_sessions' = Append(mm_sessions, NewCheckoutSession(line_items))
              /\ mm_call' = MerchantCall("create", session_id, line_items, 200,
                                         [state |-> "incomplete", order_id |-> <<>>])
              /\ UNCHANGED mm_orders
    /\ UNCHANGED <<wfVars, reqVars, discVars, srchVars, coVars, stVars, cnVars, opVars, cmpVars>>

\* PUT /api/v1/checkout/sessions/{session_id}
update_checkout ==
    /\ \E session_id \in 1..MaxSessions, req \in UpdateRequests :
         IF session_id \notin DOMAIN mm_sessions
         THEN /\ mm_call' = MerchantCall("update", session_id, req, 404, NoBody)
              /\ UNCHANGED <<mm_sessions, mm_orders>>
         ELSE LET updated == UpdatedCheckoutSession(mm_sessions[session_id], req) IN
              /\ mm_sessions' = [mm_sessions EXCEPT ![session_id] = updated]
              /\ mm_call' = MerchantCall("update", session_id, req, 200,
                                         [state |-> updated.state,
                                          order_id |-> updated.order_id])
              /\ UNCHANGED mm_orders
    /\ UNCHANGED <<wfVars, reqVars, discVars, srchVars, coVars, stVars, cnVars, opVars, cmpVars>>

\* POST /api/v1/checkout/sessions/{session_id}/complete
complete_checkout ==
    /\ \E session_id \in 1..MaxSessions :
         IF session_id \notin DOMAIN mm_sessions
         THEN /\ mm_call' = MerchantCall("complete", session_id, <<>>, 404, NoBody)
              /\ UNCHANGED <<mm_sessions, mm_orders>>
         ELSE IF ~CanComplete(mm_sessions[session_id].state)
         THEN /\ mm_call' = MerchantCall("complete", session_id, <<>>, 400, NoBody)
              /\ UNCHANGED <<mm_sessions, mm_orders>>
         ELSE \E order_id \in OrderIds :
              /\ mm_orders' = [o \in DOMAIN mm_orders \cup {order_id} |->
                                  IF o = order_id
                                  THEN NewOrder(session_id, mm_sessions[session_id])
                                  ELSE mm_orders[o]]
              /\ mm_sessions' = [mm_sessions EXCEPT
                                    ![session_id].state = "completed",
                                    ![session_id].order_id = << order_id >>]
              /\ mm_call' = MerchantCall("complete", session_id, <<>>, 200,
                                         [state |-> "completed",
                                          order_id |-> << order_id >>])
    /\ UNCHANGED <<wfVars, reqVars, discVars, srchVars, coVars, stVars, cnVars, opVars, cmpVars>>

-----------------------------------------------------------------------------
(* Initial states *)

\* The session create_shopping_session has just stored, its task created.
WfInit ==
    /\ hcr \in BOOLEAN
    /\ session = [state |-> PLANNING, error |-> NoError, orders |-> 0]
    /\ tpc = "invoke1"
    /\ node = "plan"
    /\ gs = InitialGraphState
    /\ trace = <<>>
    /\ history = <<>>
    /\ confirmation_event = FALSE
    /\ response = "none"

WfIdle ==
    /\ hcr = FALSE
    /\ session = [state |-> PLANNING, error |-> NoError, orders |-> 0]
    /\ tpc = "idle"
    /\ node = "END"
    /\ gs = InitialGraphState
    /\ trace = <<>>
    /\ history = <<>>
    /\ confirmation_event = FALSE
    /\ response = "none"

\* The event types a graph run emits up to the confirmation gate when every
\* node's work succeeds and user_confirmed is unset.
FirstRunEvents ==
    << EVENT_PLANNING, EVENT_PLANNING, EVENT_SEARCHING,
       EVENT_MERCHANTS_DISCOVERED, EVENT_SEARCHING,
       EVENT_PRODUCTS_FOUND, EVENT_COMPARING, EVENT_COMPARISON_READY,
       EVENT_OPTIMIZING, EVENT_OPTIMIZATION_READY,
       EVENT_AWAITING_CONFIRMATION, EVENT_AWAITING_CONFIRMATION >>

\* The task _run_graph past the confirmation gate (api.py, the branch of a
\* first result persisted as awaiting_confirmation): the confirmation was
\* received, user_confirmed is set on the first result and the graph is about
\* to be invoked on it.
ConfirmedInit ==
    /\ hcr \in BOOLEAN
    /\ session = [state |-> AWAITING_CONFIRMATION, error |-> NoError, orders |-> 0]
    /\ tpc = "invoke2"
    /\ node = "plan"
    /\ \E n \in 1..MaxFound, plan \in {"empty", "items"} :
          gs = [InitialGraphState EXCEPT
                   !.current_state        = AWAITING_CONFIRMATION,
                   !.shopping_plan        = "items",
                   !.discovered_merchants = n,
                   !.search_results       = "results",
                   !.comparison_matrix    = "matrix",
                   !.optimization_plan    = plan,
                   !.user_confirmed       = TRUE]
    /\ trace = <<>>
    /\ history = WorkflowEvents(FirstRunEvents, InitialGraphState)
    /\ confirmation_event = hcr
    /\ response = IF hcr THEN "confirm_200" ELSE "none"

\* The nodes of a run up to the confirmation gate.
GatePath ==
    << "plan", "discover", "search", "compare", "optimize", "present",
       "wait_for_confirmation" >>

\* The graph, re-invoked with user_confirmed set, is about to run its
\* checkout node with the plan co_plan (the merchant ids of its items, none
\* for a plan without items) and the discovered merchants co_registry;
\* execute_checkouts has created its tasks.
CheckoutNodeInit ==
    /\ co_plan \in PlanLists \cup {<<>>}
    /\ co_registry \in Registries
    /\ co_task = [m \in CheckoutMerchants |->
                     IF m \in TaskMerchants(co_plan, co_registry)
                     THEN "create" ELSE "none"]
    /\ co_calls = [m \in CheckoutMerchants |-> <<>>]
    /\ co_out = [status |-> "pending", orders |-> <<>>]
    /\ hcr = FALSE
    /\ session = [state |-> PLANNING, error |-> NoError, orders |-> 0]
    /\ tpc = "graph"
    /\ node = "checkout"
    /\ gs = [InitialGraphState EXCEPT
                !.current_state        = AWAITING_CONFIRMATION,
                !.shopping_plan        = "items",
                !.discovered_merchants = Cardinality(co_registry),
                !.search_results       = "results",
                !.comparison_matrix    = "matrix",
                !.optimization_plan    = IF co_plan = <<>> THEN "empty" ELSE "items",
                !.user_confirmed       = TRUE]
    /\ trace = [i \in 1..Len(GatePath) |-> [node |-> GatePath[i], error |-> NoError]]
    /\ history = WorkflowEvents(FirstRunEvents \o SubSeq(FirstRunEvents, 1, 11),
                                InitialGraphState)
    /\ confirmation_event = FALSE
    /\ response = "none"

GraphInit ==
    /\ hcr = FALSE
    /\ session = [state |-> PLANNING, error |-> NoError, orders |-> 0]
    /\ tpc = "graph"
    /\ node = "plan"
    /\ gs = InitialGraphState
    /\ trace = <<>>
    /\ history = <<>>
    /\ confirmation_event = FALSE
    /\ response = "none"

ReqIdle ==
    /\ req_max_retries = 0
    /\ req_attempts = 0
    /\ req_status = "idle"
    /\ req_log = <<>>

DiscIdle ==
    /\ disc_urls = <<>>
    /\ disc_results = <<>>
    /\ disc_out = [status |-> "idle", merchants |-> <<>>, failed |-> <<>>]

\* A call _request(method, url) of a client built with max_retries.
ReqInit ==
    /\ req_max_retries \in 0..MaxRetries
    /\ req_attempts = 0
    /\ req_status = "running"
    /\ req_log = <<>>

\* discover_merchants_with_failures has created one task per target URL.
DiscInit ==
    /\ disc_urls \in UrlLists
    /\ disc_results = [i \in 1..Len(TargetUrls(disc_urls)) |-> PendingResult]
    /\ disc_out = [status |-> "pending", merchants |-> <<>>, failed |-> <<>>]

SrchIdle ==
    /\ srch_queries = <<>>
    /\ srch_results = <<>>
    /\ srch_out = [status |-> "idle", results |-> <<>>]
    /\ srch_done = <<>>

CoIdle ==
    /\ co_plan = <<>>
    /\ co_registry = {}
    /\ co_task = <<>>
    /\ co_calls = <<>>
    /\ co_out = [status |-> "idle", orders |-> <<>>]

\* A fresh ShoppingEventStream: no history, no queues.
StIdle ==
    /\ st_history = <<>>
    /\ st_registry = <<>>
    /\ st_queue = [s \in Subscribers |-> <<>>]
    /\ st_sub = [s \in Subscribers |-> NotSubscribed]
    /\ st_emit = "none"
    /\ st_closed = {}

CnIdle ==
    /\ cn_kind = "none"
    /\ cn_task = [pc |-> "done", steps |-> 0, must_cancel |-> FALSE]
    /\ cn_child = [m \in CancelMerchants |->
                      [pc |-> "done", steps |-> 0, must_cancel |-> FALSE]]
    /\ cn_session = [state |-> PLANNING, error |-> NoError]
    /\ cn_cancelled = FALSE

\* The workflow task has reached the gather of one of the agents: the
\* per-merchant tasks are created and the workflow task awaits them.
CnInit ==
    /\ cn_kind \in FanOuts
    /\ cn_task = [pc |-> "awaiting", steps |-> 0, must_cancel |-> FALSE]
    /\ cn_child = [m \in CancelMerchants |-> NewTask]
    /\ cn_session = [state |-> PLANNING, error |-> NoError]
    /\ cn_cancelled = FALSE

OpIdle ==
    /\ op_matrix = <<>>
    /\ op_prefs = DefaultPreferences
    /\ op_plan = EmptyPlan
    /\ op_pc = "idle"

\* optimize is about to be called on a matrix and preferences.
OpInit ==
    /\ op_matrix \in Matrices
    /\ op_prefs \in Preferences
    /\ op_plan = EmptyPlan
    /\ op_pc = "input"

CmpIdle ==
    /\ cmp_search_results = <<>>
    /\ cmp_item_names = <<>>
    /\ cmp_matrix = NoMatrix
    /\ cmp_pc = "idle"

\* build_comparison is about to be called on search results and item names.
CmpInit ==
    /\ cmp_search_results \in SearchResults
    /\ cmp_item_names \in ItemNameLists
    /\ cmp_matrix = NoMatrix
    /\ cmp_pc = "input"

\* The merchant app as constructed: no checkout session, no order.
MmInit ==
    /\ mm_sessions = <<>>
    /\ mm_orders = <<>>
    /\ mm_call = NoCall

MmIdle == MmInit

\* search_all_merchants has created one task per (merchant, query) pair.
SrchInit ==
    /\ srch_queries \in QueryLists
    /\ srch_results = [k \in 1..(Len(SearchMerchants) * Len(srch_queries)) |->
                          PendingSearch]
    /\ srch_out = [status |-> "pending", results |-> <<>>]
    /\ srch_done = <<>>

\* search_all_merchants has created the tasks of two queries; the order in
\* which the tasks end is recorded.
SrchOrderInit ==
    /\ srch_queries = <<"keyboard", "mouse">>
    /\ srch_results = [k \in 1..(Len(SearchMerchants) * Len(srch_queries)) |->
                          PendingSearch]
    /\ srch_out = [status |-> "pending", results |-> <<>>]
    /\ srch_done = <<>>

\* execute_checkouts has grouped the plan's items by merchant and created
\* one task per merchant found in the registry; a merchant of the plan that
\* is not in the registry is skipped.
CoInit ==
    /\ co_plan \in PlanLists
    /\ co_registry \in Registries
    /\ co_task = [m \in CheckoutMerchants |->
                     IF m \in TaskMerchants(co_plan, co_registry)
                     THEN "create" ELSE "none"]
    /\ co_calls = [m \in CheckoutMerchants |-> <<>>]
    /\ co_out = [status |-> "pending", orders |-> <<>>]

-----------------------------------------------------------------------------
(* Specifications *)

Init == WfInit /\ ReqIdle /\ DiscIdle /\ SrchIdle /\ CoIdle /\ StIdle /\ CnIdle /\ OpIdle /\ CmpIdle /\ MmIdle

Next ==
    \/ GraphStep
    \/ run_graph
    \/ confirm_shopping_session
    \/ cancel_shopping_session

Spec == Init /\ [][Next]_vars

\* The session past the confirmation gate, with the confirm and cancel
\* endpoints as the environment.
ConfirmedSpecInit == ConfirmedInit /\ ReqIdle /\ DiscIdle /\ SrchIdle /\ CoIdle /\ StIdle /\ CnIdle /\ OpIdle /\ CmpIdle /\ MmIdle

ConfirmedNext ==
    \/ GraphStep
    \/ run_graph
    \/ confirm_shopping_session
    \/ cancel_shopping_session

ConfirmedSpec == ConfirmedSpecInit /\ [][ConfirmedNext]_vars

\* The checkout node together with the checkout agent it calls, followed by
\* the complete node.
CheckoutNodeSpecInit == CheckoutNodeInit /\ ReqIdle /\ DiscIdle /\ SrchIdle /\ StIdle /\ CnIdle /\ OpIdle /\ CmpIdle /\ MmIdle

CheckoutNodeNext ==
    \/ checkout_one_merchant
    \/ execute_checkouts
    \/ checkout_node_returns
    \/ complete_node_runs

CheckoutNodeSpec == CheckoutNodeSpecInit /\ [][CheckoutNodeNext]_vars

GraphSpecInit == GraphInit /\ ReqIdle /\ DiscIdle /\ SrchIdle /\ CoIdle /\ StIdle /\ CnIdle /\ OpIdle /\ CmpIdle /\ MmIdle

GraphNext ==
    \/ GraphStep
    \/ GraphReinvoke

GraphSpec == GraphSpecInit /\ [][GraphNext]_vars

RequestSpecInit == WfIdle /\ ReqInit /\ DiscIdle /\ SrchIdle /\ CoIdle /\ StIdle /\ CnIdle /\ OpIdle /\ CmpIdle /\ MmIdle

RequestNext == request_attempt

RequestSpec == RequestSpecInit /\ [][RequestNext]_vars

DiscoverySpecInit == WfIdle /\ ReqIdle /\ DiscInit /\ SrchIdle /\ CoIdle /\ StIdle /\ CnIdle /\ OpIdle /\ CmpIdle /\ MmIdle

DiscoveryNext ==
    \/ discover_one
    \/ discover_merchants_with_failures

DiscoverySpec == DiscoverySpecInit /\ [][DiscoveryNext]_vars

SearchSpecInit == WfIdle /\ ReqIdle /\ DiscIdle /\ SrchInit /\ CoIdle /\ StIdle /\ CnIdle /\ OpIdle /\ CmpIdle /\ MmIdle

SearchNext ==
    \/ search_one_merchant
    \/ search_all_merchants

SearchSpec == SearchSpecInit /\ [][SearchNext]_vars

SearchOrderSpecInit == WfIdle /\ ReqIdle /\ DiscIdle /\ SrchOrderInit /\ CoIdle /\ StIdle /\ CnIdle /\ OpIdle /\ CmpIdle /\ MmIdle

SearchOrderNext ==
    \/ search_task_ends
    \/ search_all_merchants

SearchOrderSpec == SearchOrderSpecInit /\ [][SearchOrderNext]_vars

CheckoutSpecInit == WfIdle /\ ReqIdle /\ DiscIdle /\ SrchIdle /\ CoInit /\ StIdle /\ CnIdle /\ OpIdle /\ CmpIdle /\ MmIdle

CheckoutNext ==
    \/ checkout_one_merchant
    \/ execute_checkouts

CheckoutSpec == CheckoutSpecInit /\ [][CheckoutNext]_vars

StreamSpecInit == WfIdle /\ ReqIdle /\ DiscIdle /\ SrchIdle /\ CoIdle /\ StIdle /\ CnIdle /\ OpIdle /\ CmpIdle /\ MmIdle

StreamNext ==
    \/ emit
    \/ subscribe
    \/ subscribe_next
    \/ close

StreamSpec == StreamSpecInit /\ [][StreamNext]_vars

CancelSpecInit == WfIdle /\ ReqIdle /\ DiscIdle /\ SrchIdle /\ CoIdle /\ StIdle /\ CnInit /\ OpIdle /\ CmpIdle /\ MmIdle

CancelNext ==
    \/ merchant_task_step
    \/ workflow_task_step
    \/ cancel_fan_out

CancelSpec == CancelSpecInit /\ [][CancelNext]_vars

OptimizerSpecInit ==
    WfIdle /\ ReqIdle /\ DiscIdle /\ SrchIdle /\ CoIdle /\ StIdle /\ CnIdle /\ OpInit
    /\ CmpIdle /\ MmIdle

OptimizerNext == optimizer_call

OptimizerSpec == OptimizerSpecInit /\ [][OptimizerNext]_vars

ComparisonSpecInit ==
    WfIdle /\ ReqIdle /\ DiscIdle /\ SrchIdle /\ CoIdle /\ StIdle /\ CnIdle /\ OpIdle
    /\ CmpInit /\ MmIdle

ComparisonNext == comparison_call

ComparisonSpec == ComparisonSpecInit /\ [][ComparisonNext]_vars

MerchantSpecInit ==
    WfIdle /\ ReqIdle /\ DiscIdle /\ SrchIdle /\ CoIdle /\ StIdle /\ CnIdle /\ OpIdle
    /\ CmpIdle /\ MmInit

MerchantNext ==
    \/ create_checkout
    \/ update_checkout
    \/ complete_checkout

MerchantSpec == MerchantSpecInit /\ [][MerchantNext]_vars

-----------------------------------------------------------------------------
(* Properties of the workflow *)

TraceNodes == [i \in 1..Len(trace) |-> trace[i].node]

\* The nodes of the current run, the one about to run included.
RunSoFar == IF node = "END" THEN TraceNodes ELSE Append(TraceNodes, node)

GatedNodes == <<"search", "compare", "optimize", "present", "wait_for_confirmation">>

ExpectedRun(found, confirmed) ==
    <<"plan", "discover">> \o
    (IF found
     THEN GatedNodes \o (IF confirmed THEN <<"checkout", "complete">> ELSE <<"fail">>)
     ELSE <<"fail">>)

WorkNodes == {"search", "compare", "optimize", "checkout"}

Cancelled == session.error = "Cancelled by user."

\* The re-invocation of the graph by _run_graph never happens: every run of
\* the graph from the initial state ends in the fail node, so the result
\* _run_graph persists is never awaiting_confirmation.
GateNeverReached == tpc \notin {"wait", "invoke2"}

\* C1: with human_confirmation_required set, once the first invocation has
\* produced an optimization plan and its result is persisted, the session's
\* persisted state is awaiting_confirmation for as long as the confirmation
\* signal has not fired (and the session was not cancelled).
C1_ConfirmationGate ==
    ( /\ hcr
      /\ tpc \in {"wait", "done"}
      /\ gs.optimization_plan # "none"
      /\ ~confirmation_event
      /\ ~Cancelled )
    => session.state = AWAITING_CONFIRMATION

C3_ErrorEndsRun ==
    \A i \in 1..Len(trace) :
        trace[i].error # NoError =>
            /\ \A j \in (i+1)..Len(trace) : trace[j].node \notin WorkNodes
            /\ node = "END" => /\ gs.current_state = FAILED
                               /\ gs.error = trace[i].error

StateOrder ==
    << PLANNING, DISCOVERING, SEARCHING, COMPARING, OPTIMIZING,
       AWAITING_CONFIRMATION, CHECKING_OUT, COMPLETED >>

Rank(st) == CHOOSE i \in 1..Len(StateOrder) : StateOrder[i] = st

\* b is a = b, the failed exit, or a later state of the lifecycle than a.
Forward(a, b) ==
    \/ a = b
    \/ b = FAILED
    \/ a # FAILED /\ b # FAILED /\ Rank(a) < Rank(b)

C5_UngatedSessionCompletes ==
    ( /\ ~hcr
      /\ tpc = "done"
      /\ gs.discovered_merchants > 0
      /\ gs.optimization_plan = "items"
      /\ ~Cancelled )
    => session.state = COMPLETED

\* C18: a session whose persisted state is failed has a recorded error
\* string, whichever path led to failed.
C18_FailedHasError ==
    session.state = FAILED => session.error # NoError

TerminalEventEmitted ==
    \E i \in 1..Len(history) :
        history[i].type \in {EVENT_COMPLETED, EVENT_ERROR}

\* C38: every workflow run that has reached its end, through the complete
\* node or through the fail node, has emitted a completed or an error event
\* for its session (the event without which a subscriber waiting for live
\* events of the session never ends its stream).
C38_EndedRunEmittedTerminalEvent ==
    (node = "END" /\ trace # <<>>) => TerminalEventEmitted

ConfirmStep ==
    /\ (response' = "confirm_200" /\ response # "confirm_200")
          => session.state = AWAITING_CONFIRMATION /\ confirmation_event'
    /\ (response' = "confirm_400" /\ response # "confirm_400")
          => /\ session.state # AWAITING_CONFIRMATION
             /\ confirmation_event' = confirmation_event
    /\ (confirmation_event' # confirmation_event)
          => /\ confirmation_event'
             /\ session.state = AWAITING_CONFIRMATION
             /\ response' = "confirm_200"
    /\ (tpc' = "invoke2" /\ tpc # "invoke2")
          => tpc \in {"invoke1", "wait"} /\ (tpc = "wait" => confirmation_event)
    /\ tpc \in {"invoke2", "done", "cancelled"}
          => tpc' \in {tpc, "done", "cancelled"}
    /\ Cardinality({i \in 1..Len(trace') : trace'[i].node = "checkout"}) <= 1

-----------------------------------------------------------------------------
(* Properties of UCPClient._request *)

Is4xx(out) == out.kind = "response" /\ out.code \in 400..499

\* A timeout, a connection error or a 5xx status.
IsRetryable(out) ==
    \/ out.kind \in {"timeout", "request_error"}
    \/ out.kind = "response" /\ out.code \in 500..599

\* C6: a 4xx response on any attempt, first or later, is the last attempt of
\* the call, and the call has raised UCPClientError.
C6_ClientErrorIsTerminal ==
    \A i \in 1..Len(req_log) :
        Is4xx(req_log[i]) => i = Len(req_log) /\ req_status = "raised_ucp"

\* A 4xx response on a retry.
C6_Witness ==
    /\ Len(req_log) >= 2
    /\ Is4xx(req_log[Len(req_log)])
    /\ req_status = "raised_ucp"

\* C7: a call with max_retries = N makes at most N+1 attempts; a successful
\* attempt is the last and the call has returned; a call has ended with all
\* its attempts failing retryably exactly when it made N+1 such attempts, and
\* it has then raised UCPClientError.
C7_BoundedRetry ==
    /\ req_attempts = Len(req_log)
    /\ req_attempts <= req_max_retries + 1
    /\ \A i \in 1..Len(req_log) :
          IsSuccess(req_log[i]) => i = Len(req_log) /\ req_status = "returned"
    /\ (\A i \in 1..Len(req_log) : IsRetryable(req_log[i])) =>
          /\ req_status # "running" <=> req_attempts = req_max_retries + 1
          /\ req_status \in {"running", "raised_ucp"}

\* Every attempt of a call with retries failed retryably.
C7_Witness ==
    /\ req_max_retries >= 1
    /\ req_attempts = req_max_retries + 1
    /\ \A i \in 1..Len(req_log) : IsRetryable(req_log[i])
    /\ req_status = "raised_ucp"

-----------------------------------------------------------------------------
(* Properties of the discovery fan-out *)

\* C8: discover_merchants_with_failures never raises, and when it has
\* returned, every probed URL whose discover call succeeded is the URL of
\* exactly one returned merchant and is not in the failed list, and every
\* probed URL whose call failed is exactly once in the failed list and the
\* URL of no returned merchant.
C8_DiscoveryIsolation ==
    /\ disc_out.status # "raised"
    /\ disc_out.status = "returned" =>
          \A i \in 1..Len(disc_results) :
             LET url == TargetUrls(disc_urls)[i]
                 asMerchant == {k \in 1..Len(disc_out.merchants) :
                                   disc_out.merchants[k].url = url}
                 asFailed   == {k \in 1..Len(disc_out.failed) :
                                   disc_out.failed[k] = url}
             IN  IF disc_results[i].st = "merchant"
                 THEN Cardinality(asMerchant) = 1 /\ asFailed = {}
                 ELSE Cardinality(asFailed) = 1 /\ asMerchant = {}

\* A discovery that returned with one URL failed and another discovered.
C8_Witness ==
    /\ disc_out.status = "returned"
    /\ Len(disc_out.failed) = 1
    /\ Len(disc_out.merchants) = 1

\* The position of a URL in the list of probed URLs.
UrlIndex(url) ==
    CHOOSE i \in 1..Len(TargetUrls(disc_urls)) : TargetUrls(disc_urls)[i] = url

\* C37: the merchants returned by discovery are in descending order of their
\* number of capabilities, and merchants with the same number keep the order
\* of their URLs in the candidate list.
C37_RankedByCapabilities ==
    disc_out.status = "returned" =>
        \A k, l \in 1..Len(disc_out.merchants) :
            k < l =>
                /\ disc_out.merchants[k].caps >= disc_out.merchants[l].caps
                /\ disc_out.merchants[k].caps = disc_out.merchants[l].caps =>
                       UrlIndex(disc_out.merchants[k].url)
                           < UrlIndex(disc_out.merchants[l].url)

\* A discovery that returned two merchants of the same number of capabilities.
C37_Witness ==
    /\ disc_out.status = "returned"
    /\ Len(disc_out.merchants) = 2
    /\ disc_out.merchants[1].caps = disc_out.merchants[2].caps
    /\ disc_out.merchants[1].caps > 0

-----------------------------------------------------------------------------
(* Properties of the search fan-out *)

RECURSIVE Concat(_)
Concat(seqs) == IF seqs = <<>> THEN <<>> ELSE Head(seqs) \o Concat(Tail(seqs))

\* The offers of merchant number mi: those of its pairs whose search call
\* succeeded, in query order, deduplicated.
OffersOfSuccessfulPairs(mi) ==
    Deduplicate(Concat(
        [qi \in 1..Len(srch_queries) |->
            LET r == srch_results[TaskOf(mi, qi, Len(srch_queries))] IN
            IF r.call = "ok" THEN r.products ELSE <<>>]))

\* C9: search_all_merchants never raises, and when it has returned, its
\* result maps the id of every searched merchant to the deduplicated offers
\* of that merchant's successful pairs (the empty list when none succeeded),
\* whichever pairs failed and however they failed.
C9_SearchIsolation ==
    /\ srch_out.status # "raised"
    /\ srch_out.status = "returned" =>
          \A mi \in 1..Len(SearchMerchants) :
             /\ SearchMerchants[mi].id \in DOMAIN srch_out.results
             /\ srch_out.results[SearchMerchants[mi].id] = OffersOfSuccessfulPairs(mi)

\* The (merchant id, product id) pair of an offer.
IdPair(product) == <<product.merchant_id, product.product_id>>

\* The offers returned for merchant number mi, in (merchant, query) dispatch
\* order, before deduplication.
OffersSeen(mi) ==
    Concat([qi \in 1..Len(srch_queries) |->
               LET r == srch_results[TaskOf(mi, qi, Len(srch_queries))] IN
               IF r.st = "returned" THEN r.products ELSE <<>>])

\* kept is seen with some elements removed, the others in the same order.
RECURSIVE IsSubsequence(_, _)
IsSubsequence(kept, seen) ==
    IF kept = <<>> THEN TRUE
    ELSE IF seen = <<>> THEN FALSE
    ELSE IF Head(kept) = Head(seen) THEN IsSubsequence(Tail(kept), Tail(seen))
    ELSE IsSubsequence(kept, Tail(seen))

\* C32: after the aggregation no merchant's list holds two offers with the
\* same (merchant id, product id) pair; for each pair seen, the offer kept
\* is the first one seen with it in (merchant, query) dispatch order; and
\* the offers kept are in the order in which they were seen.
C32_DedupByKey ==
    srch_out.status = "returned" =>
        \A mi \in 1..Len(SearchMerchants) :
            LET id == SearchMerchants[mi].id
                seen == OffersSeen(mi)
                kept == IF id \in DOMAIN srch_out.results
                        THEN srch_out.results[id] ELSE <<>>
            IN  /\ \A i, j \in 1..Len(kept) :
                     i # j => IdPair(kept[i]) # IdPair(kept[j])
                /\ \A i \in 1..Len(seen) :
                     (\A h \in 1..(i - 1) : IdPair(seen[h]) # IdPair(seen[i]))
                        => \E j \in 1..Len(kept) : kept[j] = seen[i]
                /\ IsSubsequence(kept, seen)

\* The orders in which the tasks may end.
CompletionOrders ==
    LET tasks == 1..Len(srch_results) IN
    {order \in [tasks -> tasks] : \A i, j \in tasks : i # j => order[i] # order[j]}

-----------------------------------------------------------------------------
(* Properties of the checkout saga *)

StepSucceeded(m, step) ==
    \E i \in 1..Len(co_calls[m]) :
        co_calls[m][i].step = step /\ co_calls[m][i].outcome = "ok"

\* The merchants of the plan, present in the registry, whose three steps
\* all succeeded.
FullyCheckedOut ==
    {m \in Range(co_plan) \cap co_registry :
        \A k \in 1..Len(CheckoutSteps) : StepSucceeded(m, CheckoutSteps[k])}

\* C10: execute_checkouts never raises, and when it has returned, its result
\* holds exactly one order for each merchant of the plan, present in the
\* registry, whose create, update and complete steps all succeeded, and none
\* for any other merchant.
C10_CheckoutIsolation ==
    /\ co_out.status # "raised"
    /\ co_out.status = "returned" =>
          \A m \in CheckoutMerchants :
             Cardinality({i \in 1..Len(co_out.orders) : co_out.orders[i] = m})
               = IF m \in FullyCheckedOut THEN 1 ELSE 0

\* Three merchants checked out: one failed at its update step, one at its
\* complete step, the third obtained the only order.
C10_Witness ==
    /\ co_out.status = "returned"
    /\ Len(co_out.orders) = 1
    /\ \E a, b \in CheckoutMerchants :
         /\ a # b
         /\ co_task[a] = "failed" /\ Len(co_calls[a]) = 2
         /\ co_task[b] = "failed" /\ Len(co_calls[b]) = 3

\* C40: when the checkout node has run with a plan and execute_checkouts
\* returned, the workflow state is completed with no error, and the run ends
\* with one completed event, the last event emitted, whose order_count is
\* the number of merchants whose checkout succeeded, whatever that number
\* is, zero included.
C40_CheckoutReportsSuccessCount ==
    (co_out.status = "returned" /\ node # "checkout") =>
        /\ gs.current_state = COMPLETED
        /\ gs.error = NoError
        /\ gs.completed_orders = Cardinality(FullyCheckedOut)
        /\ node \in {"complete", "END"}
        /\ Cardinality({i \in 1..Len(history) :
                           history[i].type = EVENT_COMPLETED})
              = IF node = "END" THEN 1 ELSE 0
        /\ node = "END" =>
              history[Len(history)]
                  = [type |-> EVENT_COMPLETED,
                     order_count |-> <<Cardinality(FullyCheckedOut)>>]

\* A run ended with order_count 0 for a plan of two merchants: one is missing
\* from the registry, the checkout of the other failed.
C40_Witness ==
    /\ node = "END"
    /\ history[Len(history)] = [type |-> EVENT_COMPLETED, order_count |-> <<0>>]
    /\ Cardinality(Range(co_plan)) = 2
    /\ "m3" \in Range(co_plan) \ co_registry
    /\ \E m \in Range(co_plan) \cap co_registry : co_task[m] = "failed"

\* C11: for every merchant and under every interleaving of the merchants'
\* checkouts, the steps issued so far are an initial part of create, update,
\* complete, each issued at most once, and every step but the last issued
\* succeeded: update is issued only after create succeeded, complete only
\* after update succeeded, and nothing is issued after a failed step.
C11_StepsSequential ==
    \A m \in CheckoutMerchants :
        /\ Len(co_calls[m]) <= Len(CheckoutSteps)
        /\ \A i \in 1..Len(co_calls[m]) :
              /\ co_calls[m][i].step = CheckoutSteps[i]
              /\ i < Len(co_calls[m]) => co_calls[m][i].outcome = "ok"
        /\ co_task[m] = "failed" =>
              /\ co_calls[m] # <<>>
              /\ co_calls[m][Len(co_calls[m])].outcome # "ok"

\* While one merchant has gone through its three steps, another has failed
\* at create and a third is between update and complete.
C11_Witness ==
    \E a, b, c \in CheckoutMerchants :
        /\ Len(co_calls[a]) = 3 /\ co_task[a] = "order"
        /\ Len(co_calls[b]) = 1 /\ co_task[b] = "failed"
        /\ Len(co_calls[c]) = 2 /\ co_task[c] = "complete"

-----------------------------------------------------------------------------
(* Properties of the event stream *)

Joined(s) == st_sub[s].pc # "idle"

\* The subscriber waits on an empty queue: it takes no step until something
\* is put on its queue.
Waiting(s) == st_sub[s].pc = "get" /\ st_queue[s] = <<>>

TerminalEmitted == \E i \in 1..Len(st_history) : IsTerminal(st_history[i])

\* C12: no subscriber is yielded the same emitted event twice, however the
\* calls of emit interleave with its history replay and its live streaming.
C12_NoDuplicateYield ==
    \A s \in Subscribers :
        \A i, j \in 1..Len(st_sub[s].yielded) :
            i < j => st_sub[s].yielded[i].id # st_sub[s].yielded[j].id

\* C13: once a completed or error event has been emitted for the session, a
\* subscriber's stream terminates, whether the event was emitted before or
\* after it joined: a subscriber that has nothing left to read has ended.
C13_StreamEndsOnTerminalEvent ==
    \A s \in Subscribers :
        (Joined(s) /\ TerminalEmitted) => ~Waiting(s)

\* C14: after close(session) every subscriber registered at the time of the
\* call ends its stream once it has drained its queue, also one whose queue
\* was full at the call: none of them is left waiting on an empty queue.
C14_CloseEndsSubscribers ==
    \A s \in st_closed : ~Waiting(s)

\* C15: a subscriber that joined after e1..ek were emitted is yielded e1..ek
\* in emission order first, then only events emitted later, in emission
\* order.
C15_ReplayThenLiveInOrder ==
    \A s \in Subscribers :
        LET y == st_sub[s].yielded
            k == st_sub[s].joined_at
        IN /\ \A i \in 1..Len(y) :
                 IF i <= k THEN y[i] = st_history[i] ELSE y[i].id > k
           /\ \A i, j \in (k + 1)..Len(y) : i < j => y[i].id <= y[j].id

\* C16: a call of emit returns without raising, appends the event to the
\* history, puts it on the queue of every registered subscriber whose queue
\* is not full and leaves a full queue as it is, whatever the other queues
\* are.
C16_EmitWithFullQueue ==
    [][ Len(st_history') = Len(st_history) + 1 =>
          LET event == st_history'[Len(st_history')] IN
          /\ st_emit' = "returned"
          /\ st_history' = Append(st_history, event)
          /\ \A s \in Subscribers :
                st_queue'[s] =
                    IF s \in Range(st_registry) /\ ~IsFull(st_queue[s])
                    THEN Append(st_queue[s], event)
                    ELSE st_queue[s] ]_vars

\* The last event emitted was dropped for a registered subscriber whose
\* queue was full and put on the queue of another registered subscriber.
C16_Witness ==
    /\ st_emit = "returned"
    /\ st_history # <<>>
    /\ \E a, b \in Range(st_registry) :
         LET event == st_history[Len(st_history)] IN
         /\ a # b
         /\ IsFull(st_queue[a])
         /\ \A i \in 1..Len(st_queue[a]) : st_queue[a][i].id < event.id
         /\ st_sub[a].joined_at < event.id
         /\ st_sub[a].pc \in {"yielded", "get"}
         /\ \A i \in 1..Len(st_sub[a].yielded) : st_sub[a].yielded[i] # event
         /\ st_queue[b] # <<>>
         /\ st_queue[b][Len(st_queue[b])] = event

-----------------------------------------------------------------------------
(* Properties of the cancellation of a fan-out *)

C28_DedupIdempotent ==
    srch_out.status = "returned" =>
        \A k \in DOMAIN srch_out.results :
            Deduplicate(srch_out.results[k]) = srch_out.results[k]

\* search_all_merchants returned, and for some merchant the deduplication
\* removed two or more repeated offers.
C28_Witness ==
    /\ srch_out.status = "returned"
    /\ \E k \in DOMAIN srch_out.results :
         Len(AggregateSearch(srch_results, <<>>)[k])
             >= Len(srch_out.results[k]) + 2

-----------------------------------------------------------------------------
(* Properties of the optimizer *)

SplitMode == op_pc = "done" /\ ~op_prefs.prefer_single_merchant

\* C20: for every matrix and every preference setting, a split-mode plan has
\* grand_total equal to total_product_cost + total_shipping_cost rounded to
\* two decimals, and savings_vs_single is not negative.
C20_SplitTotals ==
    SplitMode =>
        /\ op_plan.grand_total
               = Round2(op_plan.total_product_cost + op_plan.total_shipping_cost)
        /\ op_plan.savings_vs_single >= 0

\* A split plan over two merchants that no single merchant can fulfil, so
\* that the baseline total is below the plan's, and whose product total was
\* changed by the rounding.
C20_Witness ==
    /\ SplitMode
    /\ op_plan.merchants_used = 2
    /\ optimize_single_merchant(op_matrix, op_prefs) = EmptyPlan
    /\ op_plan.grand_total > 0
    /\ op_plan.total_product_cost
           # SumSeq([i \in 1..Len(op_plan.items) |-> op_plan.items[i].price])

\* The prices of the plan's items taken from merchant m, summed.
MerchantSubtotal(plan, m) ==
    SumSeq([i \in 1..Len(plan.items) |->
              IF plan.items[i].merchant_id = m THEN plan.items[i].price ELSE 0])

\* C21: in every plan the optimizer returns, in either mode, the items of a
\* merchant whose prices sum to at least 100.0 each have shipping_cost 0.0
\* and total equal to the price (to two decimals).
C21_FreeShippingThreshold ==
    op_pc = "done" =>
        \A i \in 1..Len(op_plan.items) :
            MerchantSubtotal(op_plan, op_plan.items[i].merchant_id)
                >= FreeShippingThreshold
            => /\ op_plan.items[i].shipping_cost = 0
               /\ op_plan.items[i].total = Round2(op_plan.items[i].price)

\* Merchant m has an offer in every entry of the matrix.
CoversAll(matrix, m) ==
    \A i \in 1..Len(matrix) :
        \E j \in 1..Len(matrix[i].merchant_results) :
            matrix[i].merchant_results[j].merchant_id = m

CatalogMerchants == {p.merchant_id : p \in Catalog}

\* C22: with prefer_single_merchant set, for any non-empty list of requested
\* items, whenever some merchant has an offer for every one of them, the plan has merchants_used = 1, one item per
\* requested item, and one merchant_id on all its items.
C22_SingleMerchantPlan ==
    ( /\ op_pc = "done"
      /\ op_prefs.prefer_single_merchant
      /\ op_matrix # <<>>
      /\ \E m \in CatalogMerchants : CoversAll(op_matrix, m) )
    => /\ op_plan.merchants_used = 1
       /\ Len(op_plan.items) = Len(op_matrix)
       /\ \A i, j \in 1..Len(op_plan.items) :
            op_plan.items[i].merchant_id = op_plan.items[j].merchant_id

\* The offers _optimize_split chooses from for one entry.
Candidates(entry, prefs) ==
    LET filtered == apply_preference_filters(entry.merchant_results, prefs)
    IN  IF filtered = <<>> THEN entry.merchant_results ELSE filtered

\* The entries of the matrix that have at least one offer.
Matched(matrix) ==
    LET has_offer(entry) == entry.merchant_results # <<>>
    IN  SelectSeq(matrix, has_offer)

\* Every choice of one candidate offer per matched entry.
Choices(matrix, prefs) ==
    { c \in [1..Len(Matched(matrix)) -> Catalog] :
        \A i \in 1..Len(c) : c[i] \in Range(Candidates(Matched(matrix)[i], prefs)) }

\* The grand total of a choice under the free-shipping rule.
ChoiceTotal(c) ==
    SplitOrderPlan(
        apply_free_shipping_thresholds(
            [i \in 1..Len(c) |-> SplitOrderItem(c[i], cheapest_shipping_cost(c[i]))]),
        0, 0).grand_total

\* C23: the grand_total of a split-mode plan is no greater than the grand
\* total, under the same free-shipping rule, of any other choice of one
\* candidate offer per matched item.
C23_SplitIsMinimumCost ==
    SplitMode =>
        \A c \in Choices(op_matrix, op_prefs) :
            op_plan.grand_total <= ChoiceTotal(c)

\* The filters as the claim has them: each of the four keeps the candidates
\* it selects, or all of them when it selects none.
FiltersEachNoOpWhenEmpty(products, prefs) ==
    LET keep(selected, all) == IF selected = <<>> THEN all ELSE selected
        in_time(p) ==
            \/ \E i \in 1..Len(p.shipping_options) :
                 p.shipping_options[i].estimated_days_max
                     <= prefs.max_shipping_days[1]
            \/ p.shipping_options = <<>>
        by_days == IF prefs.max_shipping_days # <<>>
                   THEN keep(SelectSeq(products, in_time), products)
                   ELSE products
        ships_free(p) ==
            \E i \in 1..Len(p.shipping_options) :
                p.shipping_options[i].is_free \/ p.shipping_options[i].price = 0
        by_free == IF prefs.prefer_free_shipping
                   THEN keep(SelectSeq(by_days, ships_free), by_days)
                   ELSE by_days
        of_brand(p) == Lower(p.brand) \in {Lower(b) : b \in prefs.preferred_brands}
        by_brand == IF prefs.preferred_brands # {}
                    THEN keep(SelectSeq(by_free, of_brand), by_free)
                    ELSE by_free
        well_rated(p) == p.rating >= prefs.min_rating[1]
    IN  IF prefs.min_rating # <<>>
        THEN keep(SelectSeq(by_brand, well_rated), by_brand)
        ELSE by_brand

\* C33: in split mode each of the four preference filters is a no-op when it
\* would eliminate every remaining candidate; in particular when the
\* shipping-day cap matches no offer of an item, the free-shipping, brand
\* and rating preferences still select among that item's offers, and the
\* item of the plan is the cheapest of the offers so selected.
C33_FiltersNoOpWhenEmpty ==
    (op_pc = "done" /\ SplitMode) =>
        /\ Len(op_plan.items) = Len(Matched(op_matrix))
        /\ \A k \in 1..Len(op_plan.items) :
             op_plan.items[k].product_id =
                 CheapestCandidate(
                     FiltersEachNoOpWhenEmpty(Matched(op_matrix)[k].merchant_results,
                                              op_prefs)).product_id

\* price + cheapest shipping cost of an offer.
OfferCost(p) == p.price + cheapest_shipping_cost(p)

\* The item was made from candidate number i.
ItemIsCandidate(item, candidates, i) ==
    /\ item.product_id = candidates[i].product_id
    /\ item.merchant_id = candidates[i].merchant_id
    /\ item.price = candidates[i].price

\* C34: a split-mode plan holds exactly one item for each entry of the
\* matrix that has an offer, in the order of the entries, and the item is
\* the candidate of least price + cheapest shipping cost among the entry's
\* filtered candidates, the first such candidate in scan order.
C34_SplitPicksCheapest ==
    SplitMode =>
        /\ Len(op_plan.items) = Len(Matched(op_matrix))
        /\ \A k \in 1..Len(op_plan.items) :
             LET c == Candidates(Matched(op_matrix)[k], op_prefs) IN
             \E i \in 1..Len(c) :
                /\ ItemIsCandidate(op_plan.items[k], c, i)
                /\ \A j \in 1..Len(c) : OfferCost(c[i]) <= OfferCost(c[j])
                /\ \A j \in 1..(i - 1) : OfferCost(c[j]) > OfferCost(c[i])

\* A split-mode plan for a matrix with an entry without offers and an entry
\* whose two candidates cost the same: the plan's one item is the first of
\* the two.
C34_Witness ==
    /\ SplitMode
    /\ Len(op_matrix) = 2
    /\ Len(Matched(op_matrix)) = 1
    /\ Len(op_plan.items) = 1
    /\ LET c == Candidates(Matched(op_matrix)[1], op_prefs) IN
         /\ Len(c) = 2
         /\ OfferCost(c[1]) = OfferCost(c[2])
         /\ ItemIsCandidate(op_plan.items[1], c, 1)
         /\ c[1].product_id = "hub-2"

\* The merchants with an offer in the matrix, in order of first appearance.
MatrixMerchants(matrix) ==
    FirstOccurrences([i \in 1..Len(Offers(matrix)) |->
                         Offers(matrix)[i].product.merchant_id])

\* Merchant m's cheapest offer among the offers of an entry, the first of
\* them when several cost the same.
CheapestOfMerchant(entry, m) ==
    LET r == entry.merchant_results
        i == CHOOSE i \in 1..Len(r) :
                 /\ r[i].merchant_id = m
                 /\ \A j \in 1..Len(r) :
                      r[j].merchant_id = m =>
                          /\ r[i].price <= r[j].price
                          /\ j < i => r[j].price > r[i].price
    IN  r[i]

\* The plan that takes every requested item from merchant m.
AllFrom(matrix, m) ==
    SplitOrderPlan(
        [i \in 1..Len(matrix) |->
            SplitOrderItem(CheapestOfMerchant(matrix[i], m),
                           cheapest_shipping_cost(CheapestOfMerchant(matrix[i], m)))],
        0, 1)

\* C35: in single-merchant mode a merchant qualifies iff it has an offer for
\* every requested item; the plan returned takes each item as the cheapest
\* offer of the qualifying merchant with the lowest grand total, the first
\* such merchant on ties; when no merchant qualifies the plan has no items,
\* zero totals and merchants_used 0.
C35_SingleMerchantChoice ==
    (op_pc = "done" /\ op_prefs.prefer_single_merchant) =>
        LET ms == MatrixMerchants(op_matrix)
            qualifying == {k \in 1..Len(ms) : CoversAll(op_matrix, ms[k])}
        IN  IF qualifying = {} THEN op_plan = EmptyPlan
            ELSE \E k \in qualifying :
                   /\ op_plan = AllFrom(op_matrix, ms[k])
                   /\ \A j \in qualifying :
                        /\ AllFrom(op_matrix, ms[k]).grand_total
                               <= AllFrom(op_matrix, ms[j]).grand_total
                        /\ j < k => AllFrom(op_matrix, ms[j]).grand_total
                                        > AllFrom(op_matrix, ms[k]).grand_total

\* The distinct merchant ids among the items of a plan.
PlanMerchants(plan) ==
    {plan.items[i].merchant_id : i \in 1..Len(plan.items)}

\* C36: every item of every plan the optimizer returns has
\* total = round(price + shipping_cost, 2), the items whose shipping the
\* free-shipping threshold waived included, and merchants_used is the number
\* of distinct merchant ids among the items.
C36_ItemTotalsAndMerchantCount ==
    op_pc = "done" =>
        /\ \A i \in 1..Len(op_plan.items) :
              op_plan.items[i].total
                  = Round2(op_plan.items[i].price + op_plan.items[i].shipping_cost)
        /\ op_plan.merchants_used = Cardinality(PlanMerchants(op_plan))

\* A split plan over two merchants with an item whose shipping was waived and
\* whose price is not a whole number of cents.
C36_Witness ==
    /\ op_pc = "done"
    /\ Cardinality(PlanMerchants(op_plan)) = 2
    /\ \E i \in 1..Len(op_plan.items) :
          \E e \in 1..Len(op_matrix) :
            \E k \in 1..Len(op_matrix[e].merchant_results) :
              LET p == op_matrix[e].merchant_results[k]
              IN  /\ p.product_id = op_plan.items[i].product_id
                  /\ cheapest_shipping_cost(p) > 0
                  /\ op_plan.items[i].shipping_cost = 0
                  /\ op_plan.items[i].price % 10 # 0

-----------------------------------------------------------------------------
(* Properties of the comparison engine *)

\* The entries build_comparison returned that have at least one offer.
ScoredEntries ==
    {i \in 1..Len(cmp_matrix.entries) : cmp_matrix.entries[i].merchant_results # <<>>}

\* C24: every composite score the comparison engine assigns lies in [0, 1],
\* also when all matched offers are equal in a criterion.
C24_ScoreInUnitInterval ==
    cmp_pc = "done" =>
        \A i \in ScoredEntries :
            \A j \in 1..Len(cmp_matrix.entries[i].merchant_results) :
                /\ cmp_matrix.entries[i].merchant_results[j].score >= 0
                /\ cmp_matrix.entries[i].merchant_results[j].score <= 10000

\* An entry of two offers at one price, the price range being treated as 1:
\* the first scores 1, the second less.
C24_Witness ==
    /\ cmp_pc = "done"
    /\ \E i \in ScoredEntries :
         LET r == cmp_matrix.entries[i].merchant_results
         IN  /\ Len(r) = 2
             /\ r[1].price = r[2].price
             /\ r[1].score = 10000
             /\ r[2].score < 10000

\* C25: in every entry with at least one matched offer, best_price is one of
\* the entry's offers and no matched offer of the entry is cheaper.
C25_BestPriceIsMinimum ==
    cmp_pc = "done" =>
        \A i \in ScoredEntries :
            LET entry == cmp_matrix.entries[i]
                matching == find_matching_products(Flatten(cmp_search_results),
                                                   cmp_item_names[i])
            IN  /\ Len(entry.best_price) = 1
                /\ entry.best_price[1] \in Range(entry.merchant_results)
                /\ \A k \in 1..Len(matching) :
                     entry.best_price[1].price <= matching[k].price

\* An entry of three offers whose cheapest is not the one recommended.
C25_Witness ==
    /\ cmp_pc = "done"
    /\ \E i \in ScoredEntries :
         /\ Len(cmp_matrix.entries[i].merchant_results) = 3
         /\ cmp_matrix.entries[i].best_price # cmp_matrix.entries[i].recommended

\* The test fixture was compared for the item "keyboard".
FixtureKeyboard(i) ==
    /\ cmp_pc = "done"
    /\ cmp_search_results = sample_search_results
    /\ i \in 1..Len(cmp_item_names)
    /\ cmp_item_names[i] = "keyboard"

\* The composite scores of the fixture's keyboards computed by hand:
\* TechZone 0.50 * (1 - 20/30) + 0.25 * (1 - 5.99/8.99) + 0.15 + 0 = 0.4001,
\* HomeGoods 0 + 0.25 + 0.15 + 0 = 0.4, MegaMart 0.50 + 0 + 0.15 + 0.10 = 0.75.
HandScores ==
    {<<"tz-kb-001", 4001>>, <<"hg-kb-001", 4000>>, <<"mm-kb-001", 7500>>}

\* C26: on the fixture matched to "keyboard", best_price is the MegaMart
\* offer at 69.99 and recommended is the offer with the highest composite
\* score computed by hand with the documented weights, MegaMart.
C26_FixtureKeyboard ==
    \A i \in 1..Len(cmp_item_names) :
        FixtureKeyboard(i) =>
            LET entry == cmp_matrix.entries[i]
            IN  /\ {<<p.product_id, p.score>> : p \in Range(entry.merchant_results)}
                       = HandScores
                /\ entry.best_price[1].product_id = "mm-kb-001"
                /\ entry.best_price[1].price = 6999
                /\ entry.recommended[1].product_id = "mm-kb-001"
                /\ \A p \in Range(entry.merchant_results) :
                       entry.recommended[1].score >= p.score

C26_Witness ==
    \E i \in 1..Len(cmp_item_names) :
        /\ FixtureKeyboard(i)
        /\ Len(cmp_matrix.entries[i].merchant_results) = 3

\* C27: build_comparison returns one entry per requested item name, in
\* request order; a name that matches no offer gets an entry with no result
\* and no best_price, best_shipping or recommended; every entry with a match
\* has a recommended offer.
C27_OneEntryPerItem ==
    cmp_pc = "done" =>
        /\ Len(cmp_matrix.entries) = Len(cmp_item_names)
        /\ \A i \in 1..Len(cmp_matrix.entries) :
             LET entry == cmp_matrix.entries[i]
                 matching == find_matching_products(Flatten(cmp_search_results),
                                                    cmp_item_names[i])
             IN  /\ entry.product_query = cmp_item_names[i]
                 /\ Len(entry.merchant_results) = Len(matching)
                 /\ matching = <<>> =>
                        /\ entry.best_price = <<>>
                        /\ entry.best_shipping = <<>>
                        /\ entry.recommended = <<>>
                 /\ matching # <<>> => Len(entry.recommended) = 1

\* The first item matched nothing although products were found, and the
\* second has a recommended offer.
C27_Witness ==
    /\ cmp_pc = "done"
    /\ Len(cmp_matrix.entries) = 2
    /\ cmp_search_results # <<>>
    /\ cmp_matrix.entries[1].merchant_results = <<>>
    /\ Len(cmp_matrix.entries[2].recommended) = 1

-----------------------------------------------------------------------------
(* Properties of the mock merchant's checkout *)

StateRank(state) ==
    CASE state = "incomplete" -> 1
      [] state = "ready_for_complete" -> 2
      [] state = "completed" -> 3

SessionOrders(orders, session_id) ==
    {o \in DOMAIN orders : orders[o].checkout_session_id = session_id}

\* What one request does to the sessions and the orders.
CheckoutLifecycleStep ==
    /\ \A s \in DOMAIN mm_sessions :
         /\ s \in DOMAIN mm_sessions'
         /\ StateRank(mm_sessions'[s].state) >= StateRank(mm_sessions[s].state)
    /\ \A s \in DOMAIN mm_sessions' \ DOMAIN mm_sessions :
         /\ mm_sessions'[s].state = "incomplete"
         /\ mm_call'.op = "create"
         /\ mm_call'.body.state = "incomplete"
    /\ \A s \in DOMAIN mm_sessions :
         /\ ( /\ mm_call' # mm_call
              /\ mm_call'.op = "update"
              /\ mm_call'.session_id = s
              /\ Truthy(mm_call'.request.shipping_address)
              /\ mm_sessions[s].state # "completed" )
            => /\ mm_call'.status_code = 200
               /\ mm_sessions'[s].state = "ready_for_complete"
               /\ mm_call'.body.state = "ready_for_complete"
         /\ ( /\ mm_call' # mm_call
              /\ mm_call'.op = "complete"
              /\ mm_call'.session_id = s
              /\ mm_sessions[s].state # "completed" )
            => /\ mm_call'.status_code = 200
               /\ mm_sessions'[s].state = "completed"
               /\ mm_call'.body.state = "completed"
               /\ mm_call'.body.order_id # <<>>
               /\ mm_call'.body.order_id[1] \in SessionOrders(mm_orders', s)
         /\ ( /\ mm_call'.op = "complete"
              /\ mm_call'.session_id = s
              /\ mm_sessions[s].state = "completed" )
            => /\ mm_call'.status_code = 400
               /\ mm_orders' = mm_orders
               /\ mm_sessions' = mm_sessions
    /\ \A s \in 1..MaxSessions :
         Cardinality(SessionOrders(mm_orders', s)) <= 1

\* C29: a checkout session of the mock merchant is created incomplete and
\* its state never moves backwards along incomplete, ready_for_complete,
\* completed; an update that supplies a shipping address makes a session
\* that is not completed ready_for_complete; complete makes it completed
\* and answers with the id of the order it stored; complete on a completed
\* session is answered 400 and stores nothing.
C29_CheckoutLifecycle == [][CheckoutLifecycleStep]_vars

\* A complete request on a completed session has just been rejected; the
\* session carries a shipping address and its one order.
C29_Witness ==
    /\ mm_call.op = "complete"
    /\ mm_call.status_code = 400
    /\ mm_call.session_id \in DOMAIN mm_sessions
    /\ mm_sessions[mm_call.session_id].state = "completed"
    /\ Truthy(mm_sessions[mm_call.session_id].shipping_address)
    /\ Cardinality(SessionOrders(mm_orders, mm_call.session_id)) = 1

=============================================================================
